---- MODULE Spec2Model ----
(***************************************************************************)
(* A model of the simple-data-core relational engine: the order-4 B-tree   *)
(* index (btree.ts), the table store (table.ts), the SQL tokenizer/parser  *)
(* (parser.ts) and the query executor (database.ts).                        *)
(*                                                                         *)
(* Row values (RowValue = string | number | boolean | null) are modelled   *)
(* as records [t, n]:                                                      *)
(*   t = "null"    null                                                    *)
(*   t = "num"     the number n (the inputs drawn are small integers)      *)
(*   t = "numstr"  the string made of the decimal digits of n  ('2')       *)
(*   t = "word"    a string that is not numeric: n = 0 the empty string,   *)
(*                 n = 1 'abc', n = 2 'false', n = 3 'true'                *)
(*   t = "bool"    false (n = 0) or true (n = 1)                           *)
(* Numbers stay below 10 so that the locale order of their renderings is   *)
(* their numeric order.                                                    *)
(***************************************************************************)
EXTENDS Integers, Sequences, FiniteSets, TLC

VARIABLES
    tree,      \* BTree.root of a stand-alone BTree object
    refMap,    \* reference multimap key -> set of positions, for the same calls
    treeRet,   \* what the last BTree call returned
    treeCalls, \* number of calls made on the stand-alone BTree
    table,     \* a Table object
    last,      \* the last Table call: its name and the error it threw ("none": it returned)
    calls,     \* number of calls made on the Table
    tables,    \* Database.tables: the Map from table name to Table
    sql,       \* the input of the running Database.execute call, as its token units
    pos,       \* Tokenizer.pos, counted in units (1-based)
    pc,        \* the point the running execute call is at ("idle": no call was made yet)
    query,     \* the ParsedQuery the parser is building
    steps,     \* parser steps taken by the running call
    raised,    \* the error thrown inside the running call (NoError: none)
    result,    \* the QueryResult of the last call that returned
    execs      \* number of execute calls made

vars == <<tree, refMap, treeRet, treeCalls, table, last, calls,
          tables, sql, pos, pc, query, steps, raised, result, execs>>
btreeVars == <<tree, refMap, treeRet, treeCalls>>
tableVars == <<table, last, calls>>
execVars == <<tables, sql, pos, pc, query, steps, raised, result, execs>>

(***************************************************************************)
(* Bounds of the model                                                     *)
(***************************************************************************)
MaxKey   == 5      \* keys 1..MaxKey are offered to the stand-alone B-tree
MaxPos   == 1      \* row positions 0..MaxPos are offered to the stand-alone B-tree
MaxCalls == 7      \* calls made on the stand-alone B-tree
MaxVal   == 2      \* numbers 1..MaxVal are offered as explicit column values
MaxTableCalls == 5 \* calls made on the Table
MaxExecs == 3      \* execute calls made on the Database
MaxSteps == 10     \* parser steps followed within one execute call

(***************************************************************************)
(* Values                                                                  *)
(***************************************************************************)
Null     == [t |-> "null", n |-> 0]
Num(k)   == [t |-> "num", n |-> k]
NumStr(k) == [t |-> "numstr", n |-> k]
Word     == [t |-> "word", n |-> 1]
EmptyString == [t |-> "word", n |-> 0]
Bool(b)  == [t |-> "bool", n |-> IF b THEN 1 ELSE 0]

IsString(v) == v.t \in {"numstr", "word"}

Sign(d) == IF d < 0 THEN -1 ELSE IF d > 0 THEN 1 ELSE 0

\* String(v) for a non-null value: a number renders as its decimal digits,
\* a boolean as 'false' or 'true'.
Render(v) ==
    IF v.t = "num" THEN NumStr(v.n)
    ELSE IF v.t = "bool" THEN [t |-> "word", n |-> 2 + v.n]
    ELSE v

\* a.localeCompare(b) on the strings of the model: the empty string sorts first,
\* digit strings order by their (one-digit) number, the words 'abc' < 'false' < 'true'
\* sort after them.
LocaleRank(a) == IF a.t = "numstr" THEN 1 ELSE IF a.n = 0 THEN 0 ELSE 2
LocaleCompare(a, b) ==
    IF LocaleRank(a) # LocaleRank(b) THEN Sign(LocaleRank(a) - LocaleRank(b))
    ELSE Sign(a.n - b.n)

\* BTree.defaultComparator, reduced to the sign the callers test.
defaultComparator(a, b) ==
    IF a.t = "null" /\ b.t = "null" THEN 0
    ELSE IF a.t = "null" THEN -1
    ELSE IF b.t = "null" THEN 1
    ELSE IF IsString(a) /\ IsString(b) THEN LocaleCompare(a, b)
    ELSE IF a.t = "num" /\ b.t = "num" THEN Sign(a.n - b.n)
    ELSE LocaleCompare(Render(a), Render(b))

(***************************************************************************)
(* B-tree (btree.ts)                                                       *)
(***************************************************************************)
ORDER == 4

createNode(isLeaf) ==
    [keys |-> <<>>, values |-> <<>>, children |-> <<>>, isLeaf |-> isLeaf]

\* Array.splice(i, 0, x) and Array.splice(i, 1), on 1-based sequences.
InsertAt(s, i, x) == SubSeq(s, 1, i - 1) \o <<x>> \o SubSeq(s, i, Len(s))
RemoveAt(s, i) == SubSeq(s, 1, i - 1) \o SubSeq(s, i + 1, Len(s))
Includes(s, x) == \E j \in 1..Len(s) : s[j] = x
SeqToSet(s) == {s[j] : j \in 1..Len(s)}
IndexOf(s, x) == IF Includes(s, x)
                 THEN CHOOSE j \in 1..Len(s) : s[j] = x /\ \A m \in 1..(j - 1) : s[m] # x
                 ELSE 0

\* "while (i >= 0 && cmp(key, keys[i]) < 0) i--" from the right end:
\* the 1-based slot the scan stops at, 0 when it runs off the left end.
RightScan(keys, key) ==
    LET S == {j \in 1..Len(keys) : defaultComparator(key, keys[j]) >= 0}
    IN IF S = {} THEN 0 ELSE CHOOSE j \in S : \A m \in S : m <= j

\* "while (i < keys.length && cmp(key, keys[i]) > 0) i++" from the left end:
\* the 1-based slot the scan stops at, Len + 1 when it runs off the right end.
LeftScan(keys, key) ==
    LET S == {j \in 1..Len(keys) : defaultComparator(key, keys[j]) <= 0}
    IN IF S = {} THEN Len(keys) + 1 ELSE CHOOSE j \in S : \A m \in S : j <= m

\* values[i].push(rowIndex) unless it is included already
PushUnique(node, i, rowIndex) ==
    IF Includes(node.values[i], rowIndex) THEN node
    ELSE [node EXCEPT !.values[i] = Append(@, rowIndex)]

\* BTree.splitChild(parent, index); index is the 1-based child slot.
splitChild(parent, index) ==
    LET child  == parent.children[index]
        mid    == (ORDER - 1) \div 2
        newNode == [keys     |-> SubSeq(child.keys, mid + 2, Len(child.keys)),
                    values   |-> SubSeq(child.values, mid + 2, Len(child.values)),
                    children |-> IF child.isLeaf THEN <<>>
                                 ELSE SubSeq(child.children, mid + 2, Len(child.children)),
                    isLeaf   |-> child.isLeaf]
        midKey   == child.keys[mid + 1]
        midValue == child.values[mid + 1]
        left   == [keys     |-> SubSeq(child.keys, 1, mid),
                   values   |-> SubSeq(child.values, 1, mid),
                   children |-> IF child.isLeaf THEN child.children
                                ELSE SubSeq(child.children, 1, mid + 1),
                   isLeaf   |-> child.isLeaf]
    IN [parent EXCEPT
          !.keys     = InsertAt(@, index, midKey),
          !.values   = InsertAt(@, index, midValue),
          !.children = InsertAt([@ EXCEPT ![index] = left], index + 1, newNode)]

RECURSIVE insertNonFull(_, _, _)
insertNonFull(node, key, rowIndex) ==
    LET i == RightScan(node.keys, key)
    IN IF i >= 1 /\ defaultComparator(key, node.keys[i]) = 0
       THEN PushUnique(node, i, rowIndex)
       ELSE IF node.isLeaf
       THEN [node EXCEPT !.keys   = InsertAt(@, i + 1, key),
                         !.values = InsertAt(@, i + 1, <<rowIndex>>)]
       ELSE LET c == i + 1
            IN IF Len(node.children[c].keys) = ORDER - 1
               THEN LET n2 == splitChild(node, c)
                        cmp == defaultComparator(key, n2.keys[c])
                    IN IF cmp = 0 THEN PushUnique(n2, c, rowIndex)
                       ELSE LET d == IF cmp > 0 THEN c + 1 ELSE c
                            IN [n2 EXCEPT !.children[d] = insertNonFull(@, key, rowIndex)]
               ELSE [node EXCEPT !.children[c] = insertNonFull(@, key, rowIndex)]

\* an insert that descends into a full root without splitting it
BTreeInsertUnsplit(root, key, rowIndex) == insertNonFull(root, key, rowIndex)

\* BTree.insert(key, rowIndex): the new root
BTreeInsert(root, key, rowIndex) ==
    IF Len(root.keys) = ORDER - 1
    THEN LET newRoot == [createNode(FALSE) EXCEPT !.children = <<root>>]
         IN insertNonFull(splitChild(newRoot, 1), key, rowIndex)
    ELSE insertNonFull(root, key, rowIndex)

RECURSIVE searchNode(_, _)
searchNode(node, key) ==
    LET i == LeftScan(node.keys, key)
    IN IF i <= Len(node.keys) /\ defaultComparator(key, node.keys[i]) = 0
       THEN node.values[i]
       ELSE IF node.isLeaf THEN <<>>
       ELSE searchNode(node.children[i], key)

\* BTree.search(key): the position list of the slot found
BTreeSearch(root, key) == searchNode(root, key)

\* BTree.rangeSearch, the conditions on one key: from === null || cmp(from, key) <= 0 and
\* to === null || cmp(key, to) <= 0
FromReaches(from, key) == from.t = "null" \/ defaultComparator(from, key) <= 0
ToReaches(key, to) == to.t = "null" \/ defaultComparator(key, to) <= 0

\* BTree.rangeSearch(node, from, to, results): the positions pushed, from key i on
RECURSIVE rangeSearch(_, _, _)
RECURSIVE rangeSearchFrom(_, _, _, _)
rangeSearchFrom(node, from, to, i) ==
    IF i > Len(node.keys)
    THEN IF ~node.isLeaf /\ i <= Len(node.children)
         THEN rangeSearch(node.children[i], from, to)
         ELSE <<>>
    ELSE (IF ~node.isLeaf /\ FromReaches(from, node.keys[i])
          THEN rangeSearch(node.children[i], from, to)
          ELSE <<>>)
         \o (IF FromReaches(from, node.keys[i]) /\ ToReaches(node.keys[i], to)
             THEN node.values[i]
             ELSE <<>>)
         \o rangeSearchFrom(node, from, to, i + 1)
rangeSearch(node, from, to) == rangeSearchFrom(node, from, to, 1)

\* BTree.searchRange(from, to)
searchRange(root, from, to) == rangeSearch(root, from, to)

\* BTree.deleteFromNode: [node |-> the node afterwards, found |-> the boolean returned]
RECURSIVE deleteFromNode(_, _, _)
deleteFromNode(node, key, rowIndex) ==
    LET i == LeftScan(node.keys, key)
    IN IF i <= Len(node.keys) /\ defaultComparator(key, node.keys[i]) = 0
       THEN LET valueIndex == IndexOf(node.values[i], rowIndex)
            IN IF valueIndex # 0
               THEN LET rest == RemoveAt(node.values[i], valueIndex)
                    IN [node |-> IF Len(rest) = 0
                                 THEN [node EXCEPT !.keys = RemoveAt(@, i),
                                                   !.values = RemoveAt(@, i)]
                                 ELSE [node EXCEPT !.values[i] = rest],
                        found |-> TRUE]
               ELSE [node |-> node, found |-> FALSE]
       ELSE IF node.isLeaf THEN [node |-> node, found |-> FALSE]
       ELSE LET r == deleteFromNode(node.children[i], key, rowIndex)
            IN [node |-> [node EXCEPT !.children[i] = r.node], found |-> r.found]

BTreeDelete(root, key, rowIndex) == deleteFromNode(root, key, rowIndex)

\* BTree.getAllEntries / collectEntries: the slots [key, indices] in traversal order
RECURSIVE collectEntries(_)
RECURSIVE collectFrom(_, _)
collectFrom(node, i) ==
    IF i > Len(node.keys)
    THEN IF ~node.isLeaf /\ i <= Len(node.children) THEN collectEntries(node.children[i])
         ELSE <<>>
    ELSE (IF ~node.isLeaf /\ i <= Len(node.children) THEN collectEntries(node.children[i])
          ELSE <<>>)
         \o <<[key |-> node.keys[i], indices |-> node.values[i]]>>
         \o collectFrom(node, i + 1)
collectEntries(node) == collectFrom(node, 1)
getAllEntries(root) == collectEntries(root)

\* number of key slots in the tree (as BTree.getAllEntries would list)
RECURSIVE TreeSlots(_)
RECURSIVE SumSlots(_, _)
SumSlots(children, j) ==
    IF j > Len(children) THEN 0 ELSE TreeSlots(children[j]) + SumSlots(children, j + 1)
TreeSlots(node) == Len(node.keys) + SumSlots(node.children, 1)

\* every child slot a descent can step into exists
RECURSIVE ChildrenDefined(_)
ChildrenDefined(node) ==
    node.isLeaf \/ (/\ Len(node.children) >= Len(node.keys) + 1
                    /\ \A j \in 1..Len(node.children) : ChildrenDefined(node.children[j]))

(***************************************************************************)
(* Table store (table.ts)                                                  *)
(*                                                                         *)
(* A Table is a record of the class's fields.  rows is the row array       *)
(* (position p is rows[p + 1]), indexes is the Map in insertion order,     *)
(* deletedIndices the tombstone set of 0-based positions.  A row is a      *)
(* function from column names to values.  Every operation yields the       *)
(* table afterwards together with what the call returned or threw.         *)
(***************************************************************************)
Undefined == [t |-> "undefined", n |-> 0]
Absent(v) == v.t \in {"undefined", "null"}

\* parseInt(String(value), 10) / parseFloat(String(value)): NaN for the word
ParsesAsNumber(v) == v.t \in {"num", "numstr"}

\* Table.validateValue: [ok |-> FALSE] when it throws
validateValue(value, type) ==
    IF value.t = "null" THEN [ok |-> TRUE, value |-> Null]
    ELSE IF type \in {"int", "float"}
    THEN IF ParsesAsNumber(value) THEN [ok |-> TRUE, value |-> Num(value.n)]
         ELSE [ok |-> FALSE, value |-> value]
    ELSE IF type = "boolean"
    THEN IF value.t = "bool" THEN [ok |-> TRUE, value |-> value]
         ELSE IF value = Render(Bool(TRUE)) \/ value = Num(1) THEN [ok |-> TRUE, value |-> Bool(TRUE)]
         ELSE IF value = Render(Bool(FALSE)) \/ value = Num(0) THEN [ok |-> TRUE, value |-> Bool(FALSE)]
         ELSE [ok |-> FALSE, value |-> value]
    ELSE IF type = "string" THEN [ok |-> TRUE, value |-> Render(value)]
    ELSE [ok |-> TRUE, value |-> value]

ColumnNames(columns) == {columns[j].name : j \in 1..Len(columns)}
HasColumn(columns, name) == name \in ColumnNames(columns)
ColumnDef(columns, name) == columns[CHOOSE j \in 1..Len(columns) : columns[j].name = name]

Live(t, p) == p \notin t.deletedIndices
\* the positions 0 .. rows.length - 1 in order
Positions(t) == [j \in 1..Len(t.rows) |-> j - 1]
LivePositions(t) == SelectSeq(Positions(t), LAMBDA p : Live(t, p))

\* an index build that walks the whole row array, tombstoned positions included
RECURSIVE BuildTreeOfArray(_, _, _, _)
BuildTreeOfArray(t, column, root, j) ==
    IF j > Len(t.rows) THEN root
    ELSE BuildTreeOfArray(t, column, BTreeInsert(root, t.rows[j][column], j - 1), j + 1)

\* "this.rows.forEach((row, idx) => if live then index.tree.insert(row[column], idx))"
RECURSIVE BuildTree(_, _, _, _)
BuildTree(t, column, root, j) ==
    IF j > Len(t.rows) THEN root
    ELSE BuildTree(t, column,
                   IF Live(t, j - 1) THEN BTreeInsert(root, t.rows[j][column], j - 1) ELSE root,
                   j + 1)

HasIndexNamed(t, name) == \E j \in 1..Len(t.indexes) : t.indexes[j].name = name

\* Table.createIndex(name, column, unique)
createIndex(t, name, column, unique) ==
    IF HasIndexNamed(t, name) THEN [table |-> t, error |-> "index exists"]
    ELSE IF ~HasColumn(t.columns, column) THEN [table |-> t, error |-> "no column"]
    ELSE [table |-> [t EXCEPT !.indexes =
                        Append(@, [name |-> name, column |-> column, unique |-> unique,
                                   tree |-> BuildTree(t, column, createNode(TRUE), 1)])],
          error |-> "none"]

\* the constructor's loop over the columns: [table, error], the error createIndex threw
RECURSIVE ConstructColumns(_, _)
ConstructColumns(t, j) ==
    IF j > Len(t.columns) THEN [table |-> t, error |-> "none"]
    ELSE LET col == t.columns[j]
             made == IF col.primaryKey \/ col.unique
                     THEN createIndex(t, "idx_" \o t.name \o "_" \o col.name, col.name, TRUE)
                     ELSE [table |-> t, error |-> "none"]
             t2 == IF col.autoIncrement
                   THEN [made.table EXCEPT !.autoIncrementCounters = (col.name :> 0) @@ @]
                   ELSE made.table
         IN IF made.error # "none" THEN made ELSE ConstructColumns(t2, j + 1)

\* new Table(name, columns): [table, error]
NewTable(name, columns) ==
    ConstructColumns([name |-> name, columns |-> columns, rows |-> <<>>, indexes |-> <<>>,
                      autoIncrementCounters |-> <<>>, deletedIndices |-> {}], 1)

\* Table.insert, "Process each column": the counters and the row built, or the error thrown
RECURSIVE insertColumns(_, _, _, _, _)
insertColumns(columns, data, counters, newRow, j) ==
    IF j > Len(columns) THEN [error |-> "none", counters |-> counters, row |-> newRow]
    ELSE LET col == columns[j]
             given == IF col.name \in DOMAIN data THEN data[col.name] ELSE Undefined
             auto == col.autoIncrement /\ Absent(given)
             counters2 == IF auto THEN [counters EXCEPT ![col.name] = @ + 1] ELSE counters
             value == IF auto THEN Num(counters2[col.name]) ELSE given
             checked == validateValue(value, col.type)
         IN IF col.notNull /\ Absent(value)
            THEN [error |-> "null", counters |-> counters2, row |-> newRow]
            ELSE IF value.t = "undefined"
            THEN insertColumns(columns, data, counters2, [newRow EXCEPT ![col.name] = Null], j + 1)
            ELSE IF ~checked.ok
            THEN [error |-> "type", counters |-> counters2, row |-> newRow]
            ELSE insertColumns(columns, data, counters2,
                               [newRow EXCEPT ![col.name] = checked.value], j + 1)

\* Table.insert, "Check unique constraints via indexes"
insertDuplicate(t, newRow) ==
    \E j \in 1..Len(t.indexes) :
        /\ t.indexes[j].unique
        /\ newRow[t.indexes[j].column].t # "null"
        /\ Len(BTreeSearch(t.indexes[j].tree, newRow[t.indexes[j].column])) > 0

\* Table.insert, "Update all indexes"
insertIntoIndexes(indexes, newRow, rowIndex) ==
    [j \in 1..Len(indexes) |->
        [indexes[j] EXCEPT !.tree = BTreeInsert(@, newRow[indexes[j].column], rowIndex)]]

\* an insert that stores the new row at a tombstoned position when there is one
insertReusingTombstone(t, data) ==
    LET built == insertColumns(t.columns, data, t.autoIncrementCounters,
                               [c \in ColumnNames(t.columns) |-> Null], 1)
        t1 == [t EXCEPT !.autoIncrementCounters = built.counters]
        free == CHOOSE p \in t.deletedIndices : TRUE
    IN IF built.error # "none" THEN [table |-> t1, error |-> built.error, row |-> built.row]
       ELSE IF insertDuplicate(t1, built.row)
       THEN [table |-> t1, error |-> "duplicate", row |-> built.row]
       ELSE IF t.deletedIndices # {}
       THEN [table |-> [t1 EXCEPT !.rows[free + 1] = built.row,
                                  !.deletedIndices = @ \ {free},
                                  !.indexes = insertIntoIndexes(@, built.row, free)],
             error |-> "none", row |-> built.row]
       ELSE [table |-> [t1 EXCEPT !.rows = Append(@, built.row),
                                  !.indexes = insertIntoIndexes(@, built.row, Len(t.rows))],
             error |-> "none", row |-> built.row]

\* Table.insert(data)
insert(t, data) ==
    LET built == insertColumns(t.columns, data, t.autoIncrementCounters,
                               [c \in ColumnNames(t.columns) |-> Null], 1)
        t1 == [t EXCEPT !.autoIncrementCounters = built.counters]
    IN IF built.error # "none" THEN [table |-> t1, error |-> built.error, row |-> built.row]
       ELSE IF insertDuplicate(t1, built.row)
       THEN [table |-> t1, error |-> "duplicate", row |-> built.row]
       ELSE [table |-> [t1 EXCEPT !.rows = Append(@, built.row),
                                  !.indexes = insertIntoIndexes(@, built.row, Len(t.rows))],
             error |-> "none", row |-> built.row]

\* ToNumber for the relational operators: [nan, n]; the empty string converts to 0
JsNumber(v) == [nan |-> (v.t = "undefined" \/ (v.t = "word" /\ v.n # 0)), n |-> v.n]

\* a < b in JavaScript on two non-null values
JsLess(a, b) ==
    IF IsString(a) /\ IsString(b) THEN LocaleCompare(a, b) < 0
    ELSE ~JsNumber(a).nan /\ ~JsNumber(b).nan /\ a.n < b.n

\* the comparison without the guard on null: the operators applied to null as to any value
evaluateConditionUnguarded(rowValue, operator, compareValue) ==
    CASE operator = "="  -> rowValue = compareValue
      [] operator = "!=" -> rowValue # compareValue
      [] operator = ">=" -> rowValue = compareValue
      [] operator = "<=" -> rowValue = compareValue
      [] OTHER -> FALSE

\* Table.evaluateCondition(rowValue, operator, compareValue)
evaluateCondition(rowValue, operator, compareValue) ==
    IF rowValue.t = "null" \/ compareValue.t = "null"
    THEN operator = "=" /\ rowValue = compareValue
    ELSE CASE operator = "="  -> rowValue = compareValue
           [] operator = "!=" -> rowValue # compareValue
           [] operator = ">"  -> JsLess(compareValue, rowValue)
           [] operator = "<"  -> JsLess(rowValue, compareValue)
           [] operator = ">=" -> JsLess(compareValue, rowValue) \/
                                 (IF IsString(rowValue) /\ IsString(compareValue)
                                  THEN rowValue = compareValue
                                  ELSE ~JsNumber(rowValue).nan /\ ~JsNumber(compareValue).nan
                                       /\ rowValue.n = compareValue.n)
           [] operator = "<=" -> JsLess(rowValue, compareValue) \/
                                 (IF IsString(rowValue) /\ IsString(compareValue)
                                  THEN rowValue = compareValue
                                  ELSE ~JsNumber(rowValue).nan /\ ~JsNumber(compareValue).nan
                                       /\ rowValue.n = compareValue.n)
           [] operator = "LIKE" -> IsString(rowValue) /\ IsString(compareValue)
                                   /\ rowValue = compareValue
           [] OTHER -> FALSE

\* Table.findIndexForColumn: the slot of the first index on the column, 0 for undefined
findIndexForColumn(t, column) ==
    LET S == {j \in 1..Len(t.indexes) : t.indexes[j].column = column}
    IN IF S = {} THEN 0 ELSE CHOOSE j \in S : \A m \in S : j <= m

\* row[column]: undefined when the row has no such property
Get(row, column) == IF column \in DOMAIN row THEN row[column] ELSE Undefined

\* the full table scan of selectWhere / update / delete
scanPositions(t, column, operator, value) ==
    SelectSeq(Positions(t),
              LAMBDA p : Live(t, p) /\ evaluateCondition(Get(t.rows[p + 1], column), operator, value))

\* the B-tree lookup of selectWhere / update / delete
indexPositions(t, column, value) ==
    BTreeSearch(t.indexes[findIndexForColumn(t, column)].tree, value)

\* A predicate is [has |-> FALSE] (no whereColumn) or [has, column, operator, value].
NoWhere == [has |-> FALSE, column |-> "", operator |-> "", value |-> Null]
Where(c, o, v) == [has |-> TRUE, column |-> c, operator |-> o, value |-> v]

\* "Find rows to update" / the same lines of delete
targetPositions(t, where) ==
    IF where.has
    THEN IF findIndexForColumn(t, where.column) # 0 /\ where.operator = "="
         THEN indexPositions(t, where.column, where.value)
         ELSE scanPositions(t, where.column,
                            IF where.operator = "" THEN "=" ELSE where.operator, where.value)
    ELSE LivePositions(t)

\* Table.select(): the positions of the rows returned, in order
select(t) == SelectSeq(Positions(t), LAMBDA p : Live(t, p))

\* selectWhere without the filter on deletedIndices
selectWhereUnfiltered(t, column, operator, value) ==
    IF findIndexForColumn(t, column) # 0 /\ operator = "="
    THEN indexPositions(t, column, value)
    ELSE scanPositions(t, column, operator, value)

\* Table.selectWhere(column, operator, value): the positions of the rows returned, in order
selectWhere(t, column, operator, value) ==
    SelectSeq(IF findIndexForColumn(t, column) # 0 /\ operator = "="
              THEN indexPositions(t, column, value)
              ELSE scanPositions(t, column, operator, value),
              LAMBDA p : Live(t, p))

\* a row count that ignores the tombstones
getRowCountOfArray(t) == Len(t.rows)

\* Table.getRowCount()
getRowCount(t) == Len(t.rows) - Cardinality(t.deletedIndices)

\* setValues is the list of Object.entries(setValues): [col, value] pairs
InSet(setValues, column) == \E k \in 1..Len(setValues) : setValues[k].col = column
SetValueOf(setValues, column) ==
    setValues[CHOOSE k \in 1..Len(setValues) : setValues[k].col = column].value

\* Table.update, "Check unique constraints before updating"
updateDuplicate(t, setValues, indicesToUpdate) ==
    \E j \in 1..Len(t.indexes) :
        /\ t.indexes[j].unique
        /\ InSet(setValues, t.indexes[j].column)
        /\ SetValueOf(setValues, t.indexes[j].column).t # "null"
        /\ \E m \in 1..Len(BTreeSearch(t.indexes[j].tree, SetValueOf(setValues, t.indexes[j].column))) :
              ~Includes(indicesToUpdate,
                        BTreeSearch(t.indexes[j].tree, SetValueOf(setValues, t.indexes[j].column))[m])

\* Table.update, "Update values" of one row: the row as the loop leaves it, ok = FALSE when
\* validateValue threw at some entry (the entries before it are already assigned)
RECURSIVE updateValues(_, _, _, _)
updateValues(columns, row, setValues, k) ==
    IF k > Len(setValues) THEN [ok |-> TRUE, row |-> row]
    ELSE IF ~HasColumn(columns, setValues[k].col)
    THEN updateValues(columns, row, setValues, k + 1)
    ELSE LET checked == validateValue(setValues[k].value,
                                      ColumnDef(columns, setValues[k].col).type)
         IN IF ~checked.ok THEN [ok |-> FALSE, row |-> row]
            ELSE updateValues(columns, [row EXCEPT ![setValues[k].col] = checked.value],
                              setValues, k + 1)

\* Table.update, "Update indexes" of one row
updateIndexes(indexes, setValues, oldRow, newRow, idx) ==
    [j \in 1..Len(indexes) |->
        IF InSet(setValues, indexes[j].column)
        THEN [indexes[j] EXCEPT !.tree =
                 BTreeInsert(BTreeDelete(@, oldRow[indexes[j].column], idx).node,
                             newRow[indexes[j].column], idx)]
        ELSE indexes[j]]

\* Table.update, "Update rows": the loop over indicesToUpdate from entry m on
RECURSIVE updateRows(_, _, _, _, _)
updateRows(t, setValues, indicesToUpdate, m, count) ==
    IF m > Len(indicesToUpdate) THEN [table |-> t, error |-> "none", count |-> count]
    ELSE LET idx == indicesToUpdate[m]
         IN IF ~Live(t, idx) THEN updateRows(t, setValues, indicesToUpdate, m + 1, count)
            ELSE LET assigned == updateValues(t.columns, t.rows[idx + 1], setValues, 1)
                     t1 == [t EXCEPT !.rows[idx + 1] = assigned.row]
                 IN IF ~assigned.ok THEN [table |-> t1, error |-> "type", count |-> count]
                    ELSE updateRows([t1 EXCEPT !.indexes =
                                        updateIndexes(@, setValues, t.rows[idx + 1],
                                                      assigned.row, idx)],
                                    setValues, indicesToUpdate, m + 1, count + 1)

\* Table.update(setValues, whereColumn, whereOp, whereValue)
update(t, setValues, where) ==
    LET indicesToUpdate == targetPositions(t, where)
    IN IF updateDuplicate(t, setValues, indicesToUpdate)
       THEN [table |-> t, error |-> "duplicate", count |-> 0]
       ELSE updateRows(t, setValues, indicesToUpdate, 1, 0)

\* Table.delete, "Remove from indexes" of one row
deleteFromIndexes(indexes, row, idx) ==
    [j \in 1..Len(indexes) |->
        [indexes[j] EXCEPT !.tree = BTreeDelete(@, row[indexes[j].column], idx).node]]

\* Table.delete, the loop over indicesToDelete from entry m on
RECURSIVE deleteRows(_, _, _, _)
deleteRows(t, indicesToDelete, m, count) ==
    IF m > Len(indicesToDelete) THEN [table |-> t, error |-> "none", count |-> count]
    ELSE LET idx == indicesToDelete[m]
         IN IF ~Live(t, idx) THEN deleteRows(t, indicesToDelete, m + 1, count)
            ELSE deleteRows([t EXCEPT !.indexes = deleteFromIndexes(@, t.rows[idx + 1], idx),
                                      !.deletedIndices = @ \cup {idx}],
                            indicesToDelete, m + 1, count + 1)

\* a delete that resets the auto-increment counters once no live row is left
tableDeleteResetting(t, where) ==
    LET done == deleteRows(t, targetPositions(t, where), 1, 0)
    IN IF getRowCount(done.table) = 0
       THEN [done EXCEPT !.table.autoIncrementCounters = [c \in DOMAIN @ |-> 0]]
       ELSE done

\* Table.delete(whereColumn, whereOp, whereValue)
tableDelete(t, where) == deleteRows(t, targetPositions(t, where), 1, 0)

(***************************************************************************)
(* Tokenizer (parser.ts)                                                   *)
(*                                                                         *)
(* The input is the sequence of its units: each unit is a maximal run of   *)
(* the input that peek() returns as one token (a word, a quoted literal, a *)
(* punctuation mark or operator), or a character outside the token         *)
(* alphabet ("@").  White space separates the units and is skipped by      *)
(* every call, so pos counts units.                                        *)
(***************************************************************************)
null == "<null>"            \* the null peek() returns at the end of the input
OutOfAlphabet == {"@"}      \* no quote, operator, punctuation, or [a-zA-Z0-9_.]

\* Tokenizer.peek: at a character outside the alphabet the word loop matches nothing
\* and the token is the empty string
peek(input, p) ==
    IF p > Len(input) THEN null
    ELSE IF input[p] \in OutOfAlphabet THEN ""
    ELSE input[p]

\* "if (token)": null and the empty string are falsy
Truthy(token) == token \notin {null, ""}

\* Tokenizer.next: [token, pos]; pos advances by the length of a truthy token only
next(input, p) ==
    [token |-> peek(input, p), pos |-> IF Truthy(peek(input, p)) THEN p + 1 ELSE p]

\* Tokenizer.hasMore
hasMore(input, p) == p <= Len(input) /\ input[p] # ";"

\* String.prototype.toUpperCase on the tokens of the model: the keywords written in
\* lower case map to their upper-case spelling; every other token of the inputs is a
\* keyword in upper case already, or differs from every keyword in either case
toUpperCase(token) ==
    CASE token = "select" -> "SELECT"
      [] token = "where"  -> "WHERE"
      [] token = "limit"  -> "LIMIT"
      [] OTHER -> token

\* Tokenizer.expect: [ok, token, pos]; ok = FALSE when it throws
expect(input, p, expected) ==
    [ok    |-> toUpperCase(next(input, p).token) = expected,
     token |-> next(input, p).token,
     pos   |-> next(input, p).pos]

\* "if (tokenizer.peek() === ',') tokenizer.next()"
skipComma(input, p) == IF peek(input, p) = "," THEN p + 1 ELSE p

\* `${token}` in a message
Show(token) == IF token = null THEN "null" ELSE token

Error(message) == [name |-> "Error", message |-> message]
TypeError(message) == [name |-> "TypeError", message |-> message]
NoError == [name |-> "none", message |-> ""]
ExpectedError(expected, token) ==
    Error("Expected " \o expected \o " but got " \o Show(token))
\* a property read or method call on null
NullDereference == TypeError("Cannot read properties of null")

Digits == <<"0", "1", "2", "3", "4", "5", "6", "7", "8", "9">>
IsDigit(token) == \E d \in 1..Len(Digits) : Digits[d] = token
DigitValue(token) == (CHOOSE d \in 1..Len(Digits) : Digits[d] = token) - 1
Quote(text) == "'" \o text \o "'"
IsQuotedDigit(token) == \E d \in 1..Len(Digits) : Quote(Digits[d]) = token
QuotedDigitValue(token) == (CHOOSE d \in 1..Len(Digits) : Quote(Digits[d]) = token) - 1
\* token.startsWith("'") && token.endsWith("'"): the quoted tokens of the inputs
IsQuoted(token) == IsQuotedDigit(token) \/ token \in {Quote("abc"), Quote("")}

\* parseValue(token), for a token that is not null
parseValue(token) ==
    IF IsQuoted(token)
    THEN IF IsQuotedDigit(token) THEN NumStr(QuotedDigitValue(token))
         ELSE IF token = Quote("") THEN EmptyString
         ELSE Word
    ELSE IF toUpperCase(token) = "TRUE" THEN Bool(TRUE)
    ELSE IF toUpperCase(token) = "FALSE" THEN Bool(FALSE)
    ELSE IF toUpperCase(token) = "NULL" THEN Null
    ELSE IF IsDigit(token) THEN Num(DigitValue(token))
    ELSE IF token = "" THEN EmptyString
    ELSE Word

\* parseInt(token, 10) of a LIMIT: [nan, n]
parseInt(token) ==
    IF IsDigit(token) THEN [nan |-> FALSE, n |-> DigitValue(token)]
    ELSE [nan |-> TRUE, n |-> 0]

\* "const [, column] = part.includes('.') ? part.split('.') : [table, part]"
ColumnPart(part) ==
    CASE part = "t.id" -> "id"
      [] part = "t.v"  -> "v"
      [] part = "u.uid" -> "uid"
      [] part = "u.w"  -> "w"
      [] OTHER -> part

(***************************************************************************)
(* The parsed query (types.ts): one record for all variants; the fields a  *)
(* variant does not have keep their initial value.                         *)
(***************************************************************************)
NoLimit == [defined |-> FALSE, nan |-> FALSE, n |-> 0]
NoColumn == [name |-> "", type |-> "string", primaryKey |-> FALSE, unique |-> FALSE,
             notNull |-> FALSE, autoIncrement |-> FALSE]
EmptyQuery ==
    [type |-> "", table |-> "", all |-> FALSE, columns |-> <<>>, joins |-> <<>>,
     where |-> <<>>, orderBy |-> <<>>, limit |-> NoLimit,
     values |-> <<>>, row |-> <<>>, set |-> <<>>,
     defs |-> <<>>, column |-> NoColumn, name |-> "", indexColumn |-> "", unique |-> FALSE]

\* set[column] = value on the entries of a Record: a known key keeps its place
SetPut(set, column, value) ==
    IF \E k \in 1..Len(set) : set[k].col = column
    THEN [k \in 1..Len(set) |-> IF set[k].col = column THEN [set[k] EXCEPT !.value = value]
                                ELSE set[k]]
    ELSE Append(set, [col |-> column, value |-> value])

\* the DataType of a type token (parseCreateTable's switch)
DataTypeOf(typeToken) ==
    CASE typeToken \in {"INT", "INTEGER"} -> "int"
      [] typeToken \in {"FLOAT", "DOUBLE", "REAL"} -> "float"
      [] typeToken \in {"BOOL", "BOOLEAN"} -> "boolean"
      [] OTHER -> "string"

(***************************************************************************)
(* Query executor (database.ts)                                            *)
(*                                                                         *)
(* Every operation yields [tables, result, raised, threw]: the table map   *)
(* afterwards, the QueryResult returned, the error thrown inside the       *)
(* operation (NoError: none) and whether that error left the operation     *)
(* (threw = TRUE) or was caught by the operation's own catch clause.       *)
(***************************************************************************)
QueryResult(success, message, rowCount) ==
    [success |-> success, message |-> message, rowCount |-> rowCount]

\* the message of the Error a Table method throws
ErrorMessage(kind) ==
    CASE kind = "null"         -> "Column cannot be null"
      [] kind = "type"         -> "Invalid value"
      [] kind = "duplicate"    -> "Duplicate value for unique column"
      [] kind = "index exists" -> "Index already exists"
      [] kind = "no column"    -> "Column does not exist"
      [] OTHER -> ""
TableError(kind) == IF kind = "none" THEN NoError ELSE Error(ErrorMessage(kind))

Outcome(ts, res, err, threw) ==
    [tables |-> ts, result |-> res, raised |-> err, threw |-> threw]
Failure(ts, message) == Outcome(ts, QueryResult(FALSE, message, -1), NoError, FALSE)
Caught(ts, kind) == Outcome(ts, QueryResult(FALSE, ErrorMessage(kind), -1), TableError(kind), FALSE)

HasTable(ts, name) == name \in DOMAIN ts
\* a lookup miss reported as a statement that touched no row
MissingTableAsNoRows(ts, name) == Outcome(ts, QueryResult(TRUE, "", 0), NoError, FALSE)
MissingTable(ts, name) == Failure(ts, "Table " \o Show(name) \o " does not exist")

\* Database.createTable: the Table constructor runs outside any catch clause of its own
dbCreateTableWith(ts, q, made) ==
    IF made.error # "none"
    THEN Outcome(ts, QueryResult(FALSE, "", -1), TableError(made.error), TRUE)
    ELSE Outcome((q.table :> made.table) @@ ts,
                 QueryResult(TRUE, "Table created successfully", -1), NoError, FALSE)
dbCreateTable(ts, q) ==
    IF HasTable(ts, q.table) THEN Failure(ts, "Table " \o Show(q.table) \o " already exists")
    ELSE dbCreateTableWith(ts, q, NewTable(q.table, q.defs))

\* a drop that empties the table and keeps it registered
dbDropTableKeepingEntry(ts, q) ==
    IF ~HasTable(ts, q.table) THEN MissingTable(ts, q.table)
    ELSE Outcome([ts EXCEPT ![q.table].rows = <<>>, ![q.table].deletedIndices = {}],
                 QueryResult(TRUE, "Table dropped successfully", -1), NoError, FALSE)

\* Database.dropTable
dbDropTable(ts, q) ==
    IF ~HasTable(ts, q.table) THEN MissingTable(ts, q.table)
    ELSE Outcome([n \in DOMAIN ts \ {q.table} |-> ts[n]],
                 QueryResult(TRUE, "Table dropped successfully", -1), NoError, FALSE)

\* Database.createIndex
dbCreateIndexWith(ts, q, made) ==
    IF made.error # "none" THEN Caught(ts, made.error)
    ELSE Outcome([ts EXCEPT ![q.table] = made.table],
                 QueryResult(TRUE, "Index created", -1), NoError, FALSE)
dbCreateIndex(ts, q) ==
    IF ~HasTable(ts, q.table) THEN MissingTable(ts, q.table)
    ELSE dbCreateIndexWith(ts, q, createIndex(ts[q.table], q.name, q.indexColumn, q.unique))

\* Database.insert: the partial row built for one VALUES tuple; a value the tuple
\* does not hold is undefined
InsertDataOf(t, q, valueRow) ==
    LET names == IF Len(q.columns) > 0 THEN q.columns
                 ELSE [j \in 1..Len(t.columns) |-> t.columns[j].name]
        LastSlot(c) == CHOOSE j \in 1..Len(names) :
                           names[j] = c /\ \A m \in (j + 1)..Len(names) : names[m] # c
    IN [c \in SeqToSet(names) |->
           IF LastSlot(c) <= Len(valueRow) THEN valueRow[LastSlot(c)] ELSE Undefined]

\* Database.insert: the loop over query.values from tuple k on; r is what table.insert
\* made of tuple k
RECURSIVE dbInsertRows(_, _, _, _)
RECURSIVE dbInsertNext(_, _, _, _)
dbInsertNext(r, q, k, insertedCount) ==
    IF r.error # "none" THEN [table |-> r.table, error |-> r.error, count |-> insertedCount]
    ELSE dbInsertRows(r.table, q, k + 1, insertedCount + 1)
dbInsertRows(t, q, k, insertedCount) ==
    IF k > Len(q.values) THEN [table |-> t, error |-> "none", count |-> insertedCount]
    ELSE dbInsertNext(insert(t, InsertDataOf(t, q, q.values[k])), q, k, insertedCount)

\* an insert statement that keeps none of its rows when a tuple fails
dbInsertAtomic(ts, q, r) ==
    IF r.error # "none" THEN Caught(ts, r.error)
    ELSE Outcome([ts EXCEPT ![q.table] = r.table],
                 QueryResult(TRUE, "Inserted row(s)", r.count), NoError, FALSE)

\* Database.insert
dbInsertWith(ts, q, r) ==
    IF r.error # "none" THEN Caught([ts EXCEPT ![q.table] = r.table], r.error)
    ELSE Outcome([ts EXCEPT ![q.table] = r.table],
                 QueryResult(TRUE, "Inserted row(s)", r.count), NoError, FALSE)
dbInsert(ts, q) ==
    IF ~HasTable(ts, q.table) THEN MissingTable(ts, q.table)
    ELSE dbInsertWith(ts, q, dbInsertRows(ts[q.table], q, 1, 0))

\* Table.getRows: the live rows in position order
getRows(t) == [j \in 1..Len(LivePositions(t)) |-> t.rows[LivePositions(t)[j] + 1]]

\* Database.evaluateClause: the same text as Table.evaluateCondition, on row[clause.column]
evaluateClause(row, clause) ==
    evaluateCondition(Get(row, clause.column), clause.operator, clause.value)

\* a fold that groups the clauses from the right: c1 k1 (c2 k2 (c3 ...))
RECURSIVE foldWhereFromRight(_, _, _, _)
foldWhereFromRight(row, where, i, acc) ==
    IF i > Len(where) THEN acc
    ELSE IF where[i - 1].connector = "OR"
    THEN acc \/ foldWhereFromRight(row, where, i + 1, evaluateClause(row, where[i]))
    ELSE acc /\ foldWhereFromRight(row, where, i + 1, evaluateClause(row, where[i]))

\* Database.applyWhere, the fold over the clauses from clause i on
RECURSIVE foldWhere(_, _, _, _)
foldWhere(row, where, i, acc) ==
    IF i > Len(where) THEN acc
    ELSE foldWhere(row, where, i + 1,
                   IF where[i - 1].connector = "OR" THEN acc \/ evaluateClause(row, where[i])
                   ELSE acc /\ evaluateClause(row, where[i]))

\* Database.applyWhere
applyWhere(rows, where) ==
    SelectSeq(rows, LAMBDA row : foldWhere(row, where, 2, evaluateClause(row, where[1])))

\* a row's entries under their own names and with the table prefix
Prefixed(row, tableName) ==
    [k \in DOMAIN row \cup {tableName \o "." \o c : c \in DOMAIN row} |->
        IF k \in DOMAIN row THEN row[k]
        ELSE row[CHOOSE c \in DOMAIN row : tableName \o "." \o c = k]]

\* a join that drops a left row without a match whatever the join type
JoinOneMatchedOnly(leftRow, rightRows, join, leftTableName, rightTableName) ==
    LET matches == SelectSeq(rightRows,
                      LAMBDA r : Get(leftRow, join.leftColumn) = Get(r, join.rightColumn))
    IN [j \in 1..Len(matches) |->
           Prefixed(matches[j], rightTableName) @@ Prefixed(leftRow, leftTableName)]

\* Database.performJoin, the rows one left row contributes
JoinOne(leftRow, rightRows, join, leftTableName, rightTableName) ==
    LET matches == SelectSeq(rightRows,
                      LAMBDA r : Get(leftRow, join.leftColumn) = Get(r, join.rightColumn))
    IN IF Len(matches) > 0
       THEN [j \in 1..Len(matches) |->
                Prefixed(matches[j], rightTableName) @@ Prefixed(leftRow, leftTableName)]
       ELSE IF join.type = "LEFT" THEN <<Prefixed(leftRow, leftTableName)>>
       ELSE <<>>

RECURSIVE JoinFrom(_, _, _, _, _, _)
JoinFrom(leftRows, i, rightRows, join, leftTableName, rightTableName) ==
    IF i > Len(leftRows) THEN <<>>
    ELSE JoinOne(leftRows[i], rightRows, join, leftTableName, rightTableName)
         \o JoinFrom(leftRows, i + 1, rightRows, join, leftTableName, rightTableName)

\* Database.performJoin
performJoin(leftRows, rightRows, join, leftTableName, rightTableName) ==
    IF join.type = "RIGHT"
    THEN JoinFrom(rightRows, 1, leftRows,
                  [join EXCEPT !.type = "LEFT", !.leftColumn = join.rightColumn,
                               !.rightColumn = join.leftColumn],
                  rightTableName, leftTableName)
    ELSE JoinFrom(leftRows, 1, rightRows, join, leftTableName, rightTableName)

\* Database.select, "Apply JOINs" from join k on: missing names the table not found
RECURSIVE applyJoins(_, _, _, _, _)
applyJoins(ts, rows, joins, k, from) ==
    IF k > Len(joins) THEN [ok |-> TRUE, rows |-> rows, missing |-> ""]
    ELSE IF ~HasTable(ts, joins[k].table)
    THEN [ok |-> FALSE, rows |-> rows, missing |-> joins[k].table]
    ELSE applyJoins(ts, performJoin(rows, getRows(ts[joins[k].table]), joins[k],
                                    from, joins[k].table),
                    joins, k + 1, from)

\* rows.slice(0, limit): a NaN end converts to 0
slice(rows, limit) ==
    IF ~limit.defined THEN rows
    ELSE IF limit.nan \/ limit.n <= 0 THEN <<>>
    ELSE SubSeq(rows, 1, IF limit.n < Len(rows) THEN limit.n ELSE Len(rows))

\* Database.select, "Filter columns" of one row: a listed column the row holds under its
\* own name, or else under the name after the dot, is copied under the listed name
projectRow(row, columns) ==
    [c \in {col \in SeqToSet(columns) : col \in DOMAIN row \/ ColumnPart(col) \in DOMAIN row} |->
        IF c \in DOMAIN row THEN row[c] ELSE row[ColumnPart(c)]]

\* Database.select, "Filter columns": nothing is filtered for SELECT *
project(rows, q) ==
    IF q.all THEN rows ELSE [j \in 1..Len(rows) |-> projectRow(rows[j], q.columns)]

\* a comparison that puts null after every other value
orderComparisonNullsLast(aVal, bVal) ==
    IF aVal.t = "null" /\ bVal.t = "null" THEN 0
    ELSE IF aVal.t = "null" THEN 1
    ELSE IF bVal.t = "null" THEN -1
    ELSE IF IsString(aVal) /\ IsString(bVal) THEN LocaleCompare(aVal, bVal)
    ELSE IF aVal.t = "num" /\ bVal.t = "num" THEN Sign(aVal.n - bVal.n)
    ELSE 0

\* Database.applyOrderBy, the comparison of two values of one key (its sign)
orderComparison(aVal, bVal) ==
    IF aVal.t = "null" /\ bVal.t = "null" THEN 0
    ELSE IF aVal.t = "null" THEN -1
    ELSE IF bVal.t = "null" THEN 1
    ELSE IF IsString(aVal) /\ IsString(bVal) THEN LocaleCompare(aVal, bVal)
    ELSE IF aVal.t = "num" /\ bVal.t = "num" THEN Sign(aVal.n - bVal.n)
    ELSE 0

\* Database.applyOrderBy, the comparator of sort: the loop over the keys from key k on
RECURSIVE orderCompare(_, _, _, _)
orderCompare(a, b, orderBy, k) ==
    IF k > Len(orderBy) THEN 0
    ELSE LET comparison == orderComparison(Get(a, orderBy[k].column), Get(b, orderBy[k].column))
         IN IF comparison # 0
            THEN IF orderBy[k].direction = "DESC" THEN -comparison ELSE comparison
            ELSE orderCompare(a, b, orderBy, k + 1)

\* Array.prototype.sort is stable: the rows 1..n of the input sorted, row n placed after
\* every row that does not compare greater.  On the rows of the model (a key holds
\* numbers and nulls, or is absent from every row) the comparator is a weak order, so the
\* result does not depend on the algorithm.
RECURSIVE sortFirst(_, _, _)
sortFirst(rows, n, orderBy) ==
    IF n = 0 THEN <<>>
    ELSE LET sorted == sortFirst(rows, n - 1, orderBy)
             at == Cardinality({j \in 1..Len(sorted) :
                                   orderCompare(sorted[j], rows[n], orderBy, 1) <= 0})
         IN InsertAt(sorted, at + 1, rows[n])

\* Database.applyOrderBy
applyOrderBy(rows, orderBy) == sortFirst(rows, Len(rows), orderBy)

\* a select that cuts the rows to the limit before it orders them
selectRowsLimitFirst(q, rows) ==
    IF Len(q.orderBy) > 0 THEN applyOrderBy(slice(project(rows, q), q.limit), q.orderBy)
    ELSE slice(project(rows, q), q.limit)

\* Database.select from "Filter columns" on: projection, ORDER BY, LIMIT
selectRows(q, rows) ==
    slice(IF Len(q.orderBy) > 0 THEN applyOrderBy(project(rows, q), q.orderBy)
          ELSE project(rows, q),
          q.limit)

\* Database.select: the result carries the number of rows returned
dbSelectWith(ts, q, joined) ==
    IF ~joined.ok THEN MissingTable(ts, joined.missing)
    ELSE Outcome(ts, QueryResult(TRUE, "", Len(selectRows(q, joined.rows))), NoError, FALSE)
\* Database.select, "Get base rows" and "Apply JOINs"
selectJoined(ts, q) ==
    applyJoins(ts,
               IF Len(q.where) > 0
               THEN applyWhere(getRows(ts[q.table]), q.where)
               ELSE getRows(ts[q.table]),
               q.joins, 1, q.table)
dbSelect(ts, q) ==
    IF ~HasTable(ts, q.table) THEN MissingTable(ts, q.table)
    ELSE dbSelectWith(ts, q, selectJoined(ts, q))

\* the predicate Database.update / deleteRows hand to the Table: the first clause only;
\* the Table takes a falsy whereColumn for no predicate
WhereOf(q) ==
    IF Len(q.where) > 0 /\ Truthy(q.where[1].column)
    THEN Where(q.where[1].column, q.where[1].operator, q.where[1].value)
    ELSE NoWhere

\* Database.update
dbUpdateWith(ts, q, r) ==
    IF r.error # "none" THEN Caught([ts EXCEPT ![q.table] = r.table], r.error)
    ELSE Outcome([ts EXCEPT ![q.table] = r.table],
                 QueryResult(TRUE, "Updated row(s)", r.count), NoError, FALSE)
dbUpdate(ts, q) ==
    IF ~HasTable(ts, q.table) THEN MissingTable(ts, q.table)
    ELSE dbUpdateWith(ts, q, update(ts[q.table], q.set, WhereOf(q)))

\* Database.deleteRows
dbDeleteWith(ts, q, r) ==
    Outcome([ts EXCEPT ![q.table] = r.table],
            QueryResult(TRUE, "Deleted row(s)", r.count), NoError, FALSE)
dbDelete(ts, q) ==
    IF ~HasTable(ts, q.table) THEN MissingTable(ts, q.table)
    ELSE dbDeleteWith(ts, q, tableDelete(ts[q.table], WhereOf(q)))

\* Database.executeQuery
executeQuery(ts, q) ==
    CASE q.type = "CREATE_TABLE" -> dbCreateTable(ts, q)
      [] q.type = "DROP_TABLE"   -> dbDropTable(ts, q)
      [] q.type = "CREATE_INDEX" -> dbCreateIndex(ts, q)
      [] q.type = "INSERT"       -> dbInsert(ts, q)
      [] q.type = "SELECT"       -> dbSelect(ts, q)
      [] q.type = "UPDATE"       -> dbUpdate(ts, q)
      [] q.type = "DELETE"       -> dbDelete(ts, q)
      [] OTHER -> Failure(ts, "Unknown query type")

\* JSON.stringify of a row value and JSON.parse of the result: a number, a string, a
\* boolean and null keep kind and content
stringifyValue(v) ==
    CASE v.t = "num"  -> [json |-> "number", digits |-> TRUE, n |-> v.n]
      [] v.t = "bool" -> [json |-> IF v.n = 1 THEN "true" ELSE "false", digits |-> FALSE, n |-> 0]
      [] v.t = "null" -> [json |-> "null", digits |-> FALSE, n |-> 0]
      [] OTHER        -> [json |-> "string", digits |-> (v.t = "numstr"), n |-> v.n]
parseJsonValue(j) ==
    CASE j.json = "number" -> Num(j.n)
      [] j.json = "true"   -> Bool(TRUE)
      [] j.json = "false"  -> Bool(FALSE)
      [] j.json = "null"   -> Null
      [] OTHER -> IF j.digits THEN NumStr(j.n) ELSE [t |-> "word", n |-> j.n]
\* JSON.stringify of a row: a key whose value is undefined is left out
stringifyRow(row) ==
    [c \in {k \in DOMAIN row : row[k].t # "undefined"} |-> stringifyValue(row[c])]
parseJsonRow(object) == [c \in DOMAIN object |-> parseJsonValue(object[c])]
\* JSON.stringify of a ColumnDef: name, type and the flags that are set; JSON.parse
\* gives an object on which the other flags are absent
ColumnFlags == {"primaryKey", "unique", "notNull", "autoIncrement"}
stringifyColumn(col) ==
    [name |-> col.name, type |-> col.type, flags |-> {f \in ColumnFlags : col[f]}]
parseJsonColumn(object) ==
    [name |-> object.name, type |-> object.type,
     primaryKey |-> "primaryKey" \in object.flags, unique |-> "unique" \in object.flags,
     notNull |-> "notNull" \in object.flags,
     autoIncrement |-> "autoIncrement" \in object.flags]

\* Database.serialize: per table the schema and the live rows, as JSON
serialize(ts) ==
    [name \in DOMAIN ts |->
        [schema |-> [name |-> ts[name].name,
                     columns |-> [j \in 1..Len(ts[name].columns) |->
                                     stringifyColumn(ts[name].columns[j])]],
         rows |-> [j \in 1..Len(getRows(ts[name])) |-> stringifyRow(getRows(ts[name])[j])]]]

\* Database.deserialize, "Insert rows" from row j on: [table, error]
RECURSIVE insertRows(_, _, _)
insertRows(t, rows, j) ==
    IF j > Len(rows) THEN [table |-> t, error |-> "none"]
    ELSE LET r == insert(t, parseJsonRow(rows[j]))
         IN IF r.error # "none" THEN [table |-> r.table, error |-> r.error]
            ELSE insertRows(r.table, rows, j + 1)

\* Database.deserialize, one round of the loop over the tables: [table, error]
deserializeTable(tableData) ==
    LET made == NewTable(tableData.schema.name,
                         [j \in 1..Len(tableData.schema.columns) |->
                             parseJsonColumn(tableData.schema.columns[j])])
    IN IF made.error # "none" THEN made ELSE insertRows(made.table, tableData.rows, 1)

\* Database.deserialize: the tables of the database returned, or threw = TRUE when the
\* Table constructor or an insert threw (nothing is returned then)
deserialize(json) ==
    [threw |-> \E name \in DOMAIN json : deserializeTable(json[name]).error # "none",
     tables |-> [name \in DOMAIN json |-> deserializeTable(json[name]).table]]

\* a catch clause that converts the errors the engine throws itself and hands on any
\* other (a TypeError of the runtime)
executeCatchOwnErrors(error) ==
    [escaped |-> error.name # "Error",
     result  |-> QueryResult(FALSE, error.message, -1)]

\* Database.execute, the catch clause: the QueryResult returned for an error thrown in
\* the try block; escaped = TRUE would be the error leaving execute
executeCatch(error) ==
    [escaped |-> FALSE,
     result  |-> QueryResult(FALSE,
                             IF error.name \in {"Error", "TypeError"} THEN error.message
                             ELSE "Unknown error", -1)]

(***************************************************************************)
(* Database.execute as a step machine: parse runs in steps, one per        *)
(* straight-line stretch or loop iteration of the parser; a step that      *)
(* runs a loop body also evaluates the loop condition that follows it and  *)
(* ends where the next body, or the code after the loop, begins.           *)
(***************************************************************************)
InitExec ==
    /\ tables = <<>>
    /\ sql = <<>>
    /\ pos = 1
    /\ pc = "idle"
    /\ query = EmptyQuery
    /\ steps = 0
    /\ raised = NoError
    /\ result = QueryResult(TRUE, "", -1)
    /\ execs = 0

\* the statements offered to execute
SelectThreeClauses ==
    <<"SELECT", "*", "FROM", "t", "WHERE", "id", "=", "1", "OR", "v", "=", "2", "AND",
      "v", "=", "1">>
CreateTableT ==
    <<"CREATE", "TABLE", "t", "(", "id", "INT", "PRIMARY", "KEY", "AUTO_INCREMENT", ",",
      "v", "INT", ")">>
InsertV == <<"INSERT", "INTO", "t", "(", "v", ")", "VALUES", "(", "1", ")">>
\* a CREATE TABLE that names the column v twice, UNIQUE both times
CreateRepeatedColumn ==
    <<"CREATE", "TABLE", "t", "(", "v", "INT", "UNIQUE", ",", "v", "INT", "UNIQUE", ")">>
\* a CREATE TABLE whose AUTO_INCREMENT column is neither PRIMARY KEY nor NOT NULL
CreateNullableAuto ==
    <<"CREATE", "TABLE", "t", "(", "id", "INT", "AUTO_INCREMENT", ",", "v", "INT", ")">>
UpdateIdNull == <<"UPDATE", "t", "SET", "id", "=", "NULL">>
Statements ==
    { CreateTableT,
      CreateRepeatedColumn,
      CreateNullableAuto,
      UpdateIdNull,
      InsertV,
      <<"INSERT", "INTO", "t", "VALUES", "(", "1", ",", Quote("abc"), ")">>,
      <<"INSERT", "INTO", "t", "VALUES", "(", "1", ",", "2", ")", ",", "(", "1", ",", "2", ")">>,
      <<"select", "*", "FROM", "t", "where", "v", "=", "1", "limit", "1">>,
      SelectThreeClauses,
      <<"SELECT", "id", ",", "v", "FROM", "t", "LEFT", "JOIN", "t", "ON", "t.id", "=", "v",
        "ORDER", "BY", "v", "DESC">>,
      <<"UPDATE", "t", "SET", "v", "=", "2", "WHERE", "id", "=", "1">>,
      <<"DELETE", "FROM", "t", "WHERE", "id", "=", "1">>,
      <<"CREATE", "UNIQUE", "INDEX", "i", "ON", "t", "(", "v", ")">>,
      <<"DROP", "TABLE", "t">> }

\* every statement cut short after any number of units
Prefixes(s) == {SubSeq(s, 1, n) : n \in 0..Len(s)}
\* a statement with one unit replaced by a character outside the token alphabet
Garbled(s) == {[s EXCEPT ![i] = "@"] : i \in 1..Len(s)}

\* statements with tokens after the recognised grammar: a misspelled WHERE, a stray word
DeleteWere == <<"DELETE", "FROM", "t", "WERE", "id", "=", "1">>
UpdateFoo == <<"UPDATE", "t", "SET", "v", "=", "2", "foo">>
DropTableX == <<"DROP", "TABLE", "t", "x">>
TrailingTokens == {DeleteWere, UpdateFoo, DropTableX}

Inputs ==
    UNION {Prefixes(s) : s \in Statements}
    \cup Garbled(CreateTableT) \cup Garbled(InsertV)
    \cup {<<"EXPLAIN", "t">>}
    \cup TrailingTokens

\* one step of the parser at the point label
ParserStep(label) ==
    /\ pc = label
    /\ steps < MaxSteps
    /\ steps' = steps + 1
    /\ UNCHANGED <<sql, execs, btreeVars, tableVars>>

\* the step ends at the point label with the tokenizer at p and the query q
Goto(label, p, q) ==
    /\ pc' = label
    /\ pos' = p
    /\ query' = q
    /\ UNCHANGED <<tables, raised, result>>

\* the step throws: control passes to the catch clause of execute
Thrown(error) ==
    /\ raised' = error
    /\ pc' = IF executeCatch(error).escaped THEN "escaped" ELSE "returned"
    /\ result' = IF executeCatch(error).escaped THEN result ELSE executeCatch(error).result
    /\ UNCHANGED <<tables, pos, query>>

\* Database.execute is called: new Tokenizer(sql)
Execute ==
    \E input \in Inputs :
        /\ pc \in {"idle", "returned"}
        /\ execs < MaxExecs
        /\ execs' = execs + 1
        /\ sql' = input
        /\ pos' = 1
        /\ pc' = "parse"
        /\ query' = EmptyQuery
        /\ steps' = 0
        /\ raised' = NoError
        /\ UNCHANGED <<tables, result, btreeVars, tableVars>>

\* parse: the switch on the first token
Parse ==
    /\ ParserStep("parse")
    /\ LET firstToken == toUpperCase(peek(sql, pos))
       IN CASE firstToken = "SELECT" -> Goto("parseSelect", pos, query)
            [] firstToken = "INSERT" -> Goto("parseInsert", pos, query)
            [] firstToken = "UPDATE" -> Goto("parseUpdate", pos, query)
            [] firstToken = "DELETE" -> Goto("parseDelete", pos, query)
            [] firstToken = "CREATE" -> Goto("parseCreate", pos, query)
            [] firstToken = "DROP"   -> Goto("parseDrop", pos, query)
            [] OTHER -> Thrown(Error("Unknown command: " \o Show(firstToken)))

\* parseSelect up to the column list
ParseSelect ==
    /\ ParserStep("parseSelect")
    /\ LET e == expect(sql, pos, "SELECT")
       IN IF ~e.ok THEN Thrown(ExpectedError("SELECT", e.token))
          ELSE IF peek(sql, e.pos) = "*"
          THEN Goto("select.from", e.pos + 1, [query EXCEPT !.type = "SELECT", !.all = TRUE])
          ELSE Goto("select.columns", e.pos, [query EXCEPT !.type = "SELECT"])

\* parseSelect, one iteration of the column loop
SelectColumns ==
    /\ ParserStep("select.columns")
    /\ LET col == next(sql, skipComma(sql, pos))
           q == IF Truthy(col.token) THEN [query EXCEPT !.columns = Append(@, col.token)]
                ELSE query
       IN Goto(IF peek(sql, col.pos) = "," THEN "select.columns" ELSE "select.from",
               col.pos, q)

\* parseSelect, the FROM clause
SelectFrom ==
    /\ ParserStep("select.from")
    /\ LET e == expect(sql, pos, "FROM")
           from == next(sql, e.pos)
       IN IF ~e.ok THEN Thrown(ExpectedError("FROM", e.token))
          ELSE Goto("select.clauses", from.pos, [query EXCEPT !.table = from.token])

\* parseSelect, one JOIN of the clause loop, from the tokenizer position p
ParseJoin(p, nextToken) ==
    LET typed == nextToken \in {"LEFT", "RIGHT", "INNER"}
        eJoin == expect(sql, IF typed THEN p + 1 ELSE p, "JOIN")
        joinTable == next(sql, eJoin.pos)
        eOn == expect(sql, joinTable.pos, "ON")
        leftPart == next(sql, eOn.pos)
        eEq == expect(sql, leftPart.pos, "=")
        rightPart == next(sql, eEq.pos)
    IN IF ~eJoin.ok THEN Thrown(ExpectedError("JOIN", eJoin.token))
       ELSE IF ~eOn.ok THEN Thrown(ExpectedError("ON", eOn.token))
       ELSE IF ~eEq.ok THEN Thrown(ExpectedError("=", eEq.token))
       ELSE IF rightPart.token = null THEN Thrown(NullDereference)
       ELSE Goto("select.clauses", rightPart.pos,
                 [query EXCEPT !.joins =
                     Append(@, [type |-> IF typed THEN nextToken ELSE "INNER",
                                table |-> joinTable.token,
                                leftColumn |-> ColumnPart(leftPart.token),
                                rightColumn |-> ColumnPart(rightPart.token)])])

\* parseSelect, one iteration of the clause loop "while (tokenizer.hasMore())"
SelectClause ==
    /\ ParserStep("select.clauses")
    /\ LET nextToken == toUpperCase(peek(sql, pos))
           eBy == expect(sql, pos + 1, "BY")
           limit == next(sql, pos + 1)
       IN IF ~hasMore(sql, pos) THEN Goto("executeQuery", pos, query)
          ELSE CASE nextToken \in {"INNER", "LEFT", "RIGHT", "JOIN"} -> ParseJoin(pos, nextToken)
                 [] nextToken = "WHERE" ->
                        Goto("where.clause", pos + 1, [query EXCEPT !.where = <<>>])
                 [] nextToken = "ORDER" ->
                        IF ~eBy.ok THEN Thrown(ExpectedError("BY", eBy.token))
                        ELSE Goto("select.orderBy", eBy.pos, [query EXCEPT !.orderBy = <<>>])
                 [] nextToken = "LIMIT" ->
                        Goto("select.clauses", limit.pos,
                             [query EXCEPT !.limit = [defined |-> TRUE,
                                                      nan |-> parseInt(limit.token).nan,
                                                      n |-> parseInt(limit.token).n]])
                 [] OTHER -> Goto("executeQuery", pos, query)

\* parseSelect, one iteration of the ORDER BY loop
SelectOrderBy ==
    /\ ParserStep("select.orderBy")
    /\ LET col == next(sql, skipComma(sql, pos))
           directed == toUpperCase(peek(sql, col.pos)) \in {"ASC", "DESC"}
           p == IF directed THEN col.pos + 1 ELSE col.pos
           order == [column |-> col.token,
                     direction |-> IF directed THEN toUpperCase(peek(sql, col.pos)) ELSE "ASC"]
       IN Goto(IF peek(sql, p) = "," THEN "select.orderBy" ELSE "select.clauses",
               p, [query EXCEPT !.orderBy = Append(@, order)])

\* parseWhere, one iteration of the clause loop; the caller resumes when it ends
WhereClause ==
    /\ ParserStep("where.clause")
    /\ LET linked == Len(query.where) > 0
           connector == next(sql, pos)
           column == next(sql, IF linked THEN connector.pos ELSE pos)
           operator == next(sql, column.pos)
           value == next(sql, operator.pos)
           op == IF toUpperCase(operator.token) = "LIKE" THEN "LIKE"
                 ELSE IF operator.token = "<>" THEN "!="
                 ELSE operator.token
           before == IF linked
                     THEN [query.where EXCEPT
                              ![Len(query.where)].connector = toUpperCase(connector.token)]
                     ELSE query.where
           clauses == Append(before, [column |-> column.token, operator |-> op,
                                      value |-> parseValue(value.token), connector |-> ""])
           more == hasMore(sql, value.pos)
                   /\ toUpperCase(peek(sql, value.pos)) \in {"AND", "OR"}
       IN IF linked /\ toUpperCase(connector.token) \notin {"AND", "OR"}
          THEN Thrown(Error("Expected AND/OR but got " \o Show(connector.token)))
          ELSE IF operator.token = null \/ value.token = null THEN Thrown(NullDereference)
          ELSE Goto(IF more THEN "where.clause"
                    ELSE IF query.type = "SELECT" THEN "select.clauses"
                    ELSE "executeQuery",
                    value.pos, [query EXCEPT !.where = clauses])

\* parseInsert up to the column list
ParseInsert ==
    /\ ParserStep("parseInsert")
    /\ LET eInsert == expect(sql, pos, "INSERT")
           eInto == expect(sql, eInsert.pos, "INTO")
           into == next(sql, eInto.pos)
           q == [query EXCEPT !.type = "INSERT", !.table = into.token]
       IN IF ~eInsert.ok THEN Thrown(ExpectedError("INSERT", eInsert.token))
          ELSE IF ~eInto.ok THEN Thrown(ExpectedError("INTO", eInto.token))
          ELSE IF peek(sql, into.pos) = "(" THEN Goto("insert.columns", into.pos + 1, q)
          ELSE Goto("insert.values", into.pos, q)

\* parseInsert, one iteration of the column-name loop "do ... while (peek() !== ')')"
InsertColumns ==
    /\ ParserStep("insert.columns")
    /\ LET col == next(sql, skipComma(sql, pos))
           q == IF Truthy(col.token) /\ col.token # ")"
                THEN [query EXCEPT !.columns = Append(@, col.token)]
                ELSE query
       IN IF peek(sql, col.pos) # ")" THEN Goto("insert.columns", col.pos, q)
          ELSE Goto("insert.values", col.pos + 1, q)

\* parseInsert, the VALUES keyword
InsertValues ==
    /\ ParserStep("insert.values")
    /\ LET e == expect(sql, pos, "VALUES")
       IN IF ~e.ok THEN Thrown(ExpectedError("VALUES", e.token))
          ELSE Goto("insert.tuple", e.pos, query)

\* parseInsert, the head of one iteration of the tuple loop
InsertTuple ==
    /\ ParserStep("insert.tuple")
    /\ LET e == expect(sql, skipComma(sql, pos), "(")
       IN IF ~e.ok THEN Thrown(ExpectedError("(", e.token))
          ELSE Goto("insert.row", e.pos, [query EXCEPT !.row = <<>>])

\* parseInsert, one iteration of the value loop "do ... while (peek() !== ')')" and,
\* when it ends, the rest of the tuple iteration
InsertRow ==
    /\ ParserStep("insert.row")
    /\ LET val == next(sql, skipComma(sql, pos))
           row == IF Truthy(val.token) /\ val.token # ")"
                  THEN Append(query.row, parseValue(val.token))
                  ELSE query.row
       IN IF peek(sql, val.pos) # ")"
          THEN Goto("insert.row", val.pos, [query EXCEPT !.row = row])
          ELSE Goto(IF peek(sql, val.pos + 1) = "," THEN "insert.tuple" ELSE "executeQuery",
                    val.pos + 1,
                    [query EXCEPT !.row = row, !.values = Append(@, row)])

\* the end of parseUpdate / parseDelete from the tokenizer position p: an optional WHERE
OptionalWhere(p, q) ==
    IF toUpperCase(peek(sql, p)) = "WHERE"
    THEN Goto("where.clause", p + 1, [q EXCEPT !.where = <<>>])
    ELSE Goto("executeQuery", p, q)

\* parseUpdate up to the SET list
ParseUpdate ==
    /\ ParserStep("parseUpdate")
    /\ LET eUpdate == expect(sql, pos, "UPDATE")
           target == next(sql, eUpdate.pos)
           eSet == expect(sql, target.pos, "SET")
       IN IF ~eUpdate.ok THEN Thrown(ExpectedError("UPDATE", eUpdate.token))
          ELSE IF ~eSet.ok THEN Thrown(ExpectedError("SET", eSet.token))
          ELSE Goto("update.set", eSet.pos,
                    [query EXCEPT !.type = "UPDATE", !.table = target.token])

\* parseUpdate, one iteration of the SET loop and, when it ends, the optional WHERE
UpdateSet ==
    /\ ParserStep("update.set")
    /\ LET column == next(sql, skipComma(sql, pos))
           eEq == expect(sql, column.pos, "=")
           value == next(sql, eEq.pos)
           q == [query EXCEPT !.set = SetPut(@, column.token, parseValue(value.token))]
       IN IF ~eEq.ok THEN Thrown(ExpectedError("=", eEq.token))
          ELSE IF value.token = null THEN Thrown(NullDereference)
          ELSE IF peek(sql, value.pos) = "," THEN Goto("update.set", value.pos, q)
          ELSE OptionalWhere(value.pos, q)

\* parseDelete
ParseDelete ==
    /\ ParserStep("parseDelete")
    /\ LET eDelete == expect(sql, pos, "DELETE")
           eFrom == expect(sql, eDelete.pos, "FROM")
           from == next(sql, eFrom.pos)
       IN IF ~eDelete.ok THEN Thrown(ExpectedError("DELETE", eDelete.token))
          ELSE IF ~eFrom.ok THEN Thrown(ExpectedError("FROM", eFrom.token))
          ELSE OptionalWhere(from.pos, [query EXCEPT !.type = "DELETE", !.table = from.token])

\* parseCreate
ParseCreate ==
    /\ ParserStep("parseCreate")
    /\ LET e == expect(sql, pos, "CREATE")
           nextToken == toUpperCase(peek(sql, e.pos))
       IN IF ~e.ok THEN Thrown(ExpectedError("CREATE", e.token))
          ELSE IF nextToken = "TABLE" THEN Goto("parseCreateTable", e.pos, query)
          ELSE IF nextToken \in {"INDEX", "UNIQUE"} THEN Goto("parseCreateIndex", e.pos, query)
          ELSE Thrown(Error("Expected TABLE or INDEX after CREATE"))

\* parseCreateTable up to the column loop
ParseCreateTable ==
    /\ ParserStep("parseCreateTable")
    /\ LET eTable == expect(sql, pos, "TABLE")
           target == next(sql, eTable.pos)
           eOpen == expect(sql, target.pos, "(")
       IN IF ~eTable.ok THEN Thrown(ExpectedError("TABLE", eTable.token))
          ELSE IF ~eOpen.ok THEN Thrown(ExpectedError("(", eOpen.token))
          ELSE Goto("create.column", eOpen.pos,
                    [query EXCEPT !.type = "CREATE_TABLE", !.table = target.token])

\* parseCreateTable from the condition of the constraint loop on, with the tokenizer at p:
\* another constraint, or the column is pushed and the column loop goes on or ends
ConstraintsOrNextColumn(p, q) ==
    IF hasMore(sql, p) /\ peek(sql, p) \notin {",", ")"}
    THEN Goto("create.constraints", p, q)
    ELSE IF peek(sql, p) # ")"
    THEN Goto("create.column", p, [q EXCEPT !.defs = Append(@, q.column)])
    ELSE Goto("executeQuery", p + 1, [q EXCEPT !.defs = Append(@, q.column)])

\* parseCreateTable, one iteration of the column loop "do ... while (peek() !== ')')" up to
\* the constraint loop
CreateColumn ==
    /\ ParserStep("create.column")
    /\ LET name == next(sql, skipComma(sql, pos))
           typeToken == next(sql, name.pos)
           type == DataTypeOf(toUpperCase(typeToken.token))
           sized == toUpperCase(typeToken.token) \in {"STRING", "TEXT", "VARCHAR"}
                    /\ peek(sql, typeToken.pos) = "("
           p == IF sized
                THEN next(sql, next(sql, next(sql, typeToken.pos).pos).pos).pos
                ELSE typeToken.pos
       IN IF name.token = ")" THEN Goto("executeQuery", next(sql, name.pos).pos, query)
          ELSE ConstraintsOrNextColumn(p, [query EXCEPT !.column =
                                              [NoColumn EXCEPT !.name = name.token,
                                                               !.type = type]])

\* parseCreateTable, one iteration of the constraint loop
CreateConstraint ==
    /\ ParserStep("create.constraints")
    /\ LET constraint == next(sql, pos)
           kind == toUpperCase(constraint.token)
           eKey == expect(sql, constraint.pos, "KEY")
           eNull == expect(sql, constraint.pos, "NULL")
       IN CASE kind = "PRIMARY" ->
                  IF ~eKey.ok THEN Thrown(ExpectedError("KEY", eKey.token))
                  ELSE ConstraintsOrNextColumn(eKey.pos,
                           [query EXCEPT !.column.primaryKey = TRUE, !.column.notNull = TRUE])
            [] kind = "UNIQUE" ->
                  ConstraintsOrNextColumn(constraint.pos, [query EXCEPT !.column.unique = TRUE])
            [] kind = "NOT" ->
                  IF ~eNull.ok THEN Thrown(ExpectedError("NULL", eNull.token))
                  ELSE ConstraintsOrNextColumn(eNull.pos, [query EXCEPT !.column.notNull = TRUE])
            [] kind \in {"AUTO_INCREMENT", "AUTOINCREMENT"} ->
                  ConstraintsOrNextColumn(constraint.pos,
                                          [query EXCEPT !.column.autoIncrement = TRUE])
            [] OTHER -> ConstraintsOrNextColumn(constraint.pos, query)

\* parseCreateIndex
ParseCreateIndex ==
    /\ ParserStep("parseCreateIndex")
    /\ LET unique == toUpperCase(peek(sql, pos)) = "UNIQUE"
           eIndex == expect(sql, IF unique THEN pos + 1 ELSE pos, "INDEX")
           name == next(sql, eIndex.pos)
           eOn == expect(sql, name.pos, "ON")
           target == next(sql, eOn.pos)
           eOpen == expect(sql, target.pos, "(")
           column == next(sql, eOpen.pos)
           eClose == expect(sql, column.pos, ")")
       IN IF ~eIndex.ok THEN Thrown(ExpectedError("INDEX", eIndex.token))
          ELSE IF ~eOn.ok THEN Thrown(ExpectedError("ON", eOn.token))
          ELSE IF ~eOpen.ok THEN Thrown(ExpectedError("(", eOpen.token))
          ELSE IF ~eClose.ok THEN Thrown(ExpectedError(")", eClose.token))
          ELSE Goto("executeQuery", eClose.pos,
                    [query EXCEPT !.type = "CREATE_INDEX", !.name = name.token,
                                  !.table = target.token, !.indexColumn = column.token,
                                  !.unique = unique])

\* parseDrop
ParseDrop ==
    /\ ParserStep("parseDrop")
    /\ LET eDrop == expect(sql, pos, "DROP")
           eTable == expect(sql, eDrop.pos, "TABLE")
           target == next(sql, eTable.pos)
       IN IF ~eDrop.ok THEN Thrown(ExpectedError("DROP", eDrop.token))
          ELSE IF ~eTable.ok THEN Thrown(ExpectedError("TABLE", eTable.token))
          ELSE Goto("executeQuery", target.pos,
                    [query EXCEPT !.type = "DROP_TABLE", !.table = target.token])

\* parse returned: executeQuery runs and execute returns its result, or the error it
\* threw passes to the catch clause of execute
ExecuteQuery ==
    /\ pc = "executeQuery"
    /\ \E done \in {executeQuery(tables, query)} :
          IF done.threw THEN Thrown(done.raised)
          ELSE /\ tables' = done.tables
               /\ result' = done.result
               /\ raised' = done.raised
               /\ pc' = "returned"
               /\ UNCHANGED <<pos, query>>
    /\ UNCHANGED <<sql, steps, execs, btreeVars, tableVars>>

NextExec ==
    \/ Execute \/ Parse
    \/ ParseSelect \/ SelectColumns \/ SelectFrom \/ SelectClause \/ SelectOrderBy
    \/ WhereClause
    \/ ParseInsert \/ InsertColumns \/ InsertValues \/ InsertTuple \/ InsertRow
    \/ ParseUpdate \/ UpdateSet \/ ParseDelete
    \/ ParseCreate \/ ParseCreateTable \/ CreateColumn \/ CreateConstraint
    \/ ParseCreateIndex \/ ParseDrop
    \/ ExecuteQuery

(***************************************************************************)
(* Stand-alone B-tree against a reference multimap                         *)
(***************************************************************************)
BKeys == {Num(k) : k \in 1..MaxKey}
BPositions == 0..MaxPos

\* The schema of the table of the model:
\* CREATE TABLE t (id INT PRIMARY KEY AUTO_INCREMENT, v INT)
Schema ==
    << [name |-> "id", type |-> "int", primaryKey |-> TRUE, unique |-> FALSE,
        notNull |-> TRUE, autoIncrement |-> TRUE],
       [name |-> "v", type |-> "int", primaryKey |-> FALSE, unique |-> FALSE,
        notNull |-> FALSE, autoIncrement |-> FALSE] >>

InitTable ==
    /\ table = NewTable("t", Schema).table
    /\ last = [op |-> "new", error |-> "none"]
    /\ calls = 0

InitBTreeVars ==
    /\ tree = createNode(TRUE)
    /\ refMap = [k \in BKeys |-> {}]
    /\ treeRet = [op |-> "new", found |-> FALSE]
    /\ treeCalls = 0

InitBTree == InitBTreeVars /\ InitTable /\ InitExec

DoBTreeInsert ==
    \E k \in BKeys, p \in BPositions :
        /\ treeCalls < MaxCalls
        /\ treeCalls' = treeCalls + 1
        /\ tree' = BTreeInsert(tree, k, p)
        /\ refMap' = [refMap EXCEPT ![k] = @ \cup {p}]
        /\ treeRet' = [op |-> "insert", found |-> FALSE]
        /\ UNCHANGED <<tableVars, execVars>>

DoBTreeDelete ==
    \E k \in BKeys, p \in BPositions :
        /\ treeCalls < MaxCalls
        /\ treeCalls' = treeCalls + 1
        /\ tree' = BTreeDelete(tree, k, p).node
        /\ refMap' = [refMap EXCEPT ![k] = @ \ {p}]
        /\ treeRet' = [op |-> "delete", found |-> BTreeDelete(tree, k, p).found]
        /\ UNCHANGED <<tableVars, execVars>>

NextBTree == DoBTreeInsert \/ DoBTreeDelete

SpecBTree == InitBTree /\ [][NextBTree]_vars

\* C2: for every key, search returns exactly the positions the reference
\* multimap holds for that key after the same sequence of insert and delete calls.
C2_SearchEqualsReference ==
    \A k \in BKeys : SeqToSet(BTreeSearch(tree, k)) = refMap[k]

TreeChildrenDefined == ChildrenDefined(tree)
(***************************************************************************)
(* The table store under calls of insert, update, delete and createIndex   *)
(***************************************************************************)
Nums == {Num(k) : k \in 1..MaxVal}

\* the partial rows offered to insert: id omitted (auto-increment) or explicit,
\* v omitted, a number, or a string that is no integer
InsertData ==
    {[c \in {} |-> Null]}
    \cup {("id" :> x) : x \in Nums}
    \cup {("v" :> y) : y \in Nums \cup {Word}}
    \cup {("id" :> x) @@ ("v" :> y) : x \in Nums, y \in Nums}

SetVals == Nums \cup {Null, Word}
Entry(c, x) == [col |-> c, value |-> x]
\* the SET lists offered to update: one column, or two columns in either order
SetLists ==
    {<<Entry(c, x)>> : c \in {"id", "v"}, x \in SetVals}
    \cup {<<Entry("id", Num(MaxVal)), Entry("v", y)>> : y \in {Num(1), Word}}
    \cup {<<Entry("v", y), Entry("id", Num(MaxVal))>> : y \in {Num(1), Word}}

\* the predicates offered to update
UpdateWheres ==
    {NoWhere, Where("v", "=", Num(1))} \cup {Where("id", "=", x) : x \in Nums}

\* the predicates offered to selectWhere and delete
Wheres ==
    UpdateWheres
    \cup {Where("id", "=", NumStr(1)), Where("v", "=", Null), Where("id", ">", Num(1))}

\* the createIndex calls offered: a name in use, an unknown column, and a plain and a
\* unique index on v
IndexCalls ==
    { [name |-> "idx_t_id", column |-> "v", unique |-> FALSE],
      [name |-> "idx_v", column |-> "w", unique |-> FALSE],
      [name |-> "idx_v", column |-> "v", unique |-> FALSE],
      [name |-> "idx_v", column |-> "v", unique |-> TRUE] }

TableInsert ==
    \E data \in InsertData :
        /\ calls < MaxTableCalls
        /\ calls' = calls + 1
        /\ table' = insert(table, data).table
        /\ last' = [op |-> "insert", error |-> insert(table, data).error]
        /\ UNCHANGED <<btreeVars, execVars>>

TableUpdate ==
    \E setValues \in SetLists, where \in UpdateWheres :
        /\ calls < MaxTableCalls
        /\ calls' = calls + 1
        /\ table' = update(table, setValues, where).table
        /\ last' = [op |-> "update", error |-> update(table, setValues, where).error]
        /\ UNCHANGED <<btreeVars, execVars>>

TableDelete ==
    \E where \in Wheres :
        /\ calls < MaxTableCalls
        /\ calls' = calls + 1
        /\ table' = tableDelete(table, where).table
        /\ last' = [op |-> "delete", error |-> "none"]
        /\ UNCHANGED <<btreeVars, execVars>>

TableCreateIndex ==
    \E ix \in IndexCalls :
        /\ calls < MaxTableCalls
        /\ calls' = calls + 1
        /\ table' = createIndex(table, ix.name, ix.column, ix.unique).table
        /\ last' = [op |-> "createIndex",
                    error |-> createIndex(table, ix.name, ix.column, ix.unique).error]
        /\ UNCHANGED <<btreeVars, execVars>>

Next == TableInsert \/ TableUpdate \/ TableDelete \/ TableCreateIndex

Init == InitTable /\ InitBTreeVars /\ InitExec

Spec == Init /\ [][Next]_vars

(***************************************************************************)
(* The database under execute calls                                        *)
(***************************************************************************)
InitDatabase == InitExec /\ InitTable /\ InitBTreeVars

SpecExec == InitDatabase /\ [][NextExec]_vars

IndexesChildrenDefined ==
    \A j \in 1..Len(table.indexes) : ChildrenDefined(table.indexes[j].tree)

(***************************************************************************)
(* Claims                                                                  *)
(***************************************************************************)
LiveSet(t) == {p \in 0..(Len(t.rows) - 1) : Live(t, p)}
IndexSlots(t) == 1..Len(t.indexes)
\* the keys some slot of the index holds
StoredKeys(ix) == {getAllEntries(ix.tree)[e].key : e \in 1..Len(getAllEntries(ix.tree))}

\* C1: for every index and every live row at position p, search(row[indexColumn])
\* contains p, and no slot with another key holds p.
C1_IndexConsistency ==
    \A j \in IndexSlots(table) : \A p \in LiveSet(table) :
        LET ix == table.indexes[j]
            key == table.rows[p + 1][ix.column]
            entries == getAllEntries(ix.tree)
        IN /\ Includes(BTreeSearch(ix.tree, key), p)
           /\ \A e \in 1..Len(entries) :
                 Includes(entries[e].indices, p) => entries[e].key = key

\* C3: for every unique index, no two live rows hold the same non-null value in the
\* indexed column.
C3_Uniqueness ==
    \A j \in IndexSlots(table) : \A p, q \in LiveSet(table) :
        LET c == table.indexes[j].column
        IN (table.indexes[j].unique /\ p # q /\ table.rows[p + 1][c].t # "null")
           => table.rows[p + 1][c] # table.rows[q + 1][c]

\* the PRIMARY KEY / UNIQUE columns of the schema
UniqueColumns(t) ==
    {t.columns[j].name : j \in {m \in 1..Len(t.columns) :
                                    t.columns[m].primaryKey \/ t.columns[m].unique}}
\* the row insert(data) stores when nothing is thrown
InsertedRow(t, data) ==
    insertColumns(t.columns, data, t.autoIncrementCounters,
                  [c \in ColumnNames(t.columns) |-> Null], 1)
\* data passes the NOT NULL and type checks, and its value on a PRIMARY KEY / UNIQUE
\* column is non-null and held by a live row
HeldByLiveRow(t, data) ==
    /\ InsertedRow(t, data).error = "none"
    /\ \E c \in UniqueColumns(t) : \E p \in LiveSet(t) :
          /\ InsertedRow(t, data).row[c].t # "null"
          /\ t.rows[p + 1][c] = InsertedRow(t, data).row[c]

\* C4: in every reachable table state, an insert whose value on a PRIMARY KEY / UNIQUE
\* column is held by a live row throws the duplicate-value error and leaves the rows, the
\* tombstones and every index as they were.
C4_DuplicateInsertRejected ==
    \A data \in InsertData :
        HeldByLiveRow(table, data) =>
            /\ insert(table, data).error = "duplicate"
            /\ insert(table, data).table.rows = table.rows
            /\ insert(table, data).table.deletedIndices = table.deletedIndices
            /\ insert(table, data).table.indexes = table.indexes

\* C5: in every reachable table state, an update that throws leaves every row and every
\* index as they were.
C5_FailedUpdateChangesNothing ==
    \A setValues \in SetLists : \A where \in UpdateWheres :
        update(table, setValues, where).error # "none" =>
            /\ update(table, setValues, where).table.rows = table.rows
            /\ update(table, setValues, where).table.indexes = table.indexes

ParserLoops ==
    {"select.columns", "select.clauses", "select.orderBy", "where.clause", "insert.columns",
     "insert.tuple", "insert.row", "update.set", "create.column", "create.constraints"}
LoopOf(point) ==
    IF point \in {"insert.tuple", "insert.row"} THEN {"insert.tuple", "insert.row"}
    ELSE IF point \in {"create.column", "create.constraints"}
    THEN {"create.column", "create.constraints"}
    ELSE IF point \in ParserLoops THEN {point}
    ELSE {}

\* C7: every step of a tokenizer/parser loop consumes input or leaves the loop, for every
\* input; so no loop can go round for ever and parse returns or throws.
C7_LoopsConsumeOrExit ==
    [][pc' \in LoopOf(pc) => pos' > pos]_vars

\* the values a predicate is offered with
WhereValues == Nums \cup {Null, NumStr(1), Word}
IndexedColumns(t) == {t.indexes[j].column : j \in IndexSlots(t)}

\* C8: for every indexed column c and value v, the index path of selectWhere(c, '=', v)
\* selects exactly the live rows that a full scan with evaluateCondition selects.
C8_IndexScanParity ==
    \A c \in IndexedColumns(table) : \A v \in WhereValues :
        SeqToSet(selectWhere(table, c, "=", v))
            = SeqToSet(scanPositions(table, c, "=", v))

\* C9: no index returns a tombstoned position from search, on any key it stores or on
\* the key the deleted row holds.
C9_NoTombstoneInIndex ==
    \A j \in IndexSlots(table) : \A p \in table.deletedIndices :
        \A k \in StoredKeys(table.indexes[j])
                 \cup {table.rows[p + 1][table.indexes[j].column]} :
            ~Includes(BTreeSearch(table.indexes[j].tree, k), p)

\* the live rows that satisfy the predicate (all live rows when there is none)
Matching(t, where) ==
    {p \in LiveSet(t) :
        where.has => evaluateCondition(t.rows[p + 1][where.column], where.operator, where.value)}

\* C10: in every reachable table state, delete(predicate) returns the number of live rows
\* satisfying the predicate, tombstones exactly those rows, and getRowCount() decreases by
\* the number returned.
C10_DeleteCount ==
    \A where \in Wheres :
        /\ tableDelete(table, where).count = Cardinality(Matching(table, where))
        /\ tableDelete(table, where).table.deletedIndices
              = table.deletedIndices \cup Matching(table, where)
        /\ getRowCount(tableDelete(table, where).table)
              = getRowCount(table) - tableDelete(table, where).count

\* the live rows whose value in column c a successful update(setValues, where) changes
Changed(t, setValues, where, c) ==
    {p \in LiveSet(t) :
        /\ update(t, setValues, where).error = "none"
        /\ update(t, setValues, where).table.rows[p + 1][c] # t.rows[p + 1][c]}

\* C11: in every reachable table state, after a successful update that changes the value
\* of an indexed column of a row from old to new, no index on that column returns the
\* row's position from search(old) and every index on it returns it from search(new).
C11_UpdateMovesIndexEntry ==
    \A setValues \in SetLists : \A where \in UpdateWheres : \A j \in IndexSlots(table) :
        \A p \in Changed(table, setValues, where, table.indexes[j].column) :
            LET after == update(table, setValues, where).table
                c == table.indexes[j].column
            IN /\ ~Includes(BTreeSearch(after.indexes[j].tree, table.rows[p + 1][c]), p)
               /\ Includes(BTreeSearch(after.indexes[j].tree, after.rows[p + 1][c]), p)

\* the columns declared NOT NULL or PRIMARY KEY
NotNullColumns(t) ==
    {t.columns[j].name : j \in {m \in 1..Len(t.columns) :
                                    t.columns[m].notNull \/ t.columns[m].primaryKey}}

\* C12: in every reachable table state, no live row holds null in a column declared
\* NOT NULL or PRIMARY KEY.
C12_NotNull ==
    \A c \in NotNullColumns(table) : \A p \in LiveSet(table) :
        table.rows[p + 1][c].t # "null"

\* the rows a table holds at the positions 0..n-1
RowsBelow(t, n) == [p \in 0..(n - 1) |-> t.rows[p + 1]]

\* C13: in every step of the table, the row array never gets shorter, a successful insert
\* appends one row at position = previous length and every other call appends none, the
\* tombstone set only grows and holds assigned positions only, and insert, delete and
\* createIndex leave every row that was stored at the position it had.
C13_PositionsStable ==
    [][ /\ Len(table'.rows) = Len(table.rows)
                                + (IF last'.op = "insert" /\ last'.error = "none" THEN 1 ELSE 0)
        /\ table.deletedIndices \subseteq table'.deletedIndices
        /\ table'.deletedIndices \subseteq 0..(Len(table'.rows) - 1)
        /\ last'.op # "delete" => table'.deletedIndices = table.deletedIndices
        /\ last'.op # "update" => RowsBelow(table', Len(table.rows)) = RowsBelow(table, Len(table.rows))
      ]_vars

\* C13, witness: a row was inserted after another was deleted, and it sits after the
\* tombstoned position.
C13_InsertAfterDelete ==
    /\ last.op = "insert" /\ last.error = "none"
    /\ table.deletedIndices # {}
    /\ (Len(table.rows) - 1) \notin table.deletedIndices
    /\ \A p \in table.deletedIndices : p < Len(table.rows) - 1

\* C14: in every reachable table state getRowCount() equals the number of rows appended
\* (the length of the append-only row array) minus the number of tombstoned positions,
\* and equals the number of rows getRows() returns.
C14_RowCount ==
    /\ getRowCount(table) = Len(table.rows) - Cardinality(table.deletedIndices)
    /\ getRowCount(table) = Len(getRows(table))
    /\ getRowCount(table) = Cardinality(LiveSet(table))

\* C14, witness: three rows were appended, two of them are tombstoned and getRows()
\* returns the remaining one.
C14_SomeDeleted ==
    /\ Len(table.rows) = 3
    /\ Cardinality(table.deletedIndices) = 2
    /\ Len(getRows(table)) = 1

\* C15: in every reachable table state and for every tombstoned position p: select,
\* getRows and selectWhere (by index or by scan) do not return p, an update leaves the
\* row at p as it is, and a delete neither counts p nor tombstones anything but the rows
\* it counts.
C15_DeletedStaysDeleted ==
    /\ \A p \in table.deletedIndices :
          /\ ~Includes(select(table), p)
          /\ Len(getRows(table)) = Len(select(table))
          /\ \A where \in Wheres \ {NoWhere} :
                ~Includes(selectWhere(table, where.column, where.operator, where.value), p)
    /\ \A setValues \in SetLists : \A where \in UpdateWheres :
          LET after == update(table, setValues, where).table
          IN \A p \in table.deletedIndices : after.rows[p + 1] = table.rows[p + 1]
    /\ \A where \in Wheres :
          LET done == tableDelete(table, where)
          IN /\ done.count = Cardinality(done.table.deletedIndices \ table.deletedIndices)
             /\ done.count <= Cardinality(LiveSet(table))

\* C15, witness: an index still returns a tombstoned position from search on a key, and
\* selectWhere on that key does not return it.
C15_StaleEntryFiltered ==
    \E p \in table.deletedIndices : \E j \in IndexSlots(table) :
        \E k \in StoredKeys(table.indexes[j]) :
            /\ findIndexForColumn(table, table.indexes[j].column) = j
            /\ Includes(BTreeSearch(table.indexes[j].tree, k), p)
            /\ ~Includes(selectWhere(table, table.indexes[j].column, "=", k), p)

\* the AUTO_INCREMENT columns of the schema
AutoColumns(t) ==
    {t.columns[j].name : j \in {m \in 1..Len(t.columns) : t.columns[m].autoIncrement}}

\* C16: the counter of every AUTO_INCREMENT column starts at 0; in every step it stays or
\* grows by one, only insert changes it, and a successful insert that advanced it stored
\* the new counter value in the row it appended.  So the auto-assigned values of a column
\* strictly increase, whatever is deleted in between.
C16_AutoIncrement ==
    [][ \A c \in AutoColumns(table) :
          /\ NewTable(table.name, table.columns).table.autoIncrementCounters[c] = 0
          /\ table'.autoIncrementCounters[c] \in
                {table.autoIncrementCounters[c], table.autoIncrementCounters[c] + 1}
          /\ table'.autoIncrementCounters[c] # table.autoIncrementCounters[c]
                => last'.op = "insert"
          /\ (table'.autoIncrementCounters[c] # table.autoIncrementCounters[c]
                /\ last'.error = "none")
                => table'.rows[Len(table'.rows)][c] = Num(table.autoIncrementCounters[c] + 1)
      ]_vars

\* C16, witness: after an insert, a delete of every row and a second insert, the row
\* appended holds the auto-assigned value 2.
C16_AssignedAfterDeleteAll ==
    /\ calls = 3 /\ last.op = "insert" /\ last.error = "none"
    /\ Len(table.rows) = 2 /\ table.deletedIndices = {0}
    /\ table.autoIncrementCounters["id"] = 2
    /\ table.rows[2]["id"] = Num(2)

\* the table after table.insert was called for the tuples 1..i of an INSERT, one by one,
\* and whether the call for tuple i throws
RECURSIVE AfterTuples(_, _, _)
AfterTuples(t, q, i) ==
    IF i = 0 THEN t
    ELSE insert(AfterTuples(t, q, i - 1),
                InsertDataOf(t, q, q.values[i])).table
FailsAt(t, q, i) ==
    insert(AfterTuples(t, q, i - 1), InsertDataOf(t, q, q.values[i])).error # "none"

\* C17: when execute runs an INSERT of n tuples on an existing table and tuple k is the
\* first that table.insert rejects, the call returns success = false, the rows of the
\* tuples 1..k-1 are appended and live, and no row of the tuples k..n is stored.
C17_MultiRowInsertNotAtomic ==
    [][ (pc = "executeQuery" /\ query.type = "INSERT" /\ HasTable(tables, query.table))
        => \A k \in 1..Len(query.values) :
              (FailsAt(tables[query.table], query, k)
               /\ \A i \in 1..(k - 1) : ~FailsAt(tables[query.table], query, i))
              => /\ ~result'.success
                 /\ pc' = "returned"
                 /\ tables'[query.table].rows
                       = AfterTuples(tables[query.table], query, k - 1).rows
                 /\ Len(tables'[query.table].rows) = Len(tables[query.table].rows) + k - 1
                 /\ \A p \in Len(tables[query.table].rows)..(Len(tables'[query.table].rows) - 1) :
                       Live(tables'[query.table], p)
      ]_vars

\* C17, witness: CREATE TABLE and then an INSERT of two tuples whose second tuple repeats
\* the primary key of the first: the call failed and the table holds the first row.
C17_FirstTupleKept ==
    /\ execs = 2 /\ pc = "returned"
    /\ query.type = "INSERT" /\ Len(query.values) = 2
    /\ ~result.success /\ raised = TableError("duplicate")
    /\ HasTable(tables, "t")
    /\ Len(getRows(tables["t"])) = 1
    /\ getRows(tables["t"])[1] = ("id" :> Num(1)) @@ ("v" :> Num(2))

\* WHERE lists of two clauses: a first clause out of the predicates offered to delete, a
\* connector, and a second clause on v
Clause(where, connector) ==
    [column |-> where.column, operator |-> where.operator, value |-> where.value,
     connector |-> connector]
WhereLists ==
    {<<Clause(first, k), Clause(Where("v", "=", y), "")>> :
        first \in Wheres \ {NoWhere}, k \in {"AND", "OR"}, y \in {Num(1), Num(MaxVal)}}
DeleteQuery(where) == [EmptyQuery EXCEPT !.type = "DELETE", !.table = "t", !.where = where]
UpdateQuery(set, where) ==
    [EmptyQuery EXCEPT !.type = "UPDATE", !.table = "t", !.set = set, !.where = where]
\* the live rows that satisfy the first clause of a WHERE list
MatchingFirst(t, where) ==
    {p \in LiveSet(t) :
        evaluateCondition(Get(t.rows[p + 1], where[1].column), where[1].operator,
                          where[1].value)}

\* C18: in every reachable table state, a DELETE with a WHERE list of two clauses
\* tombstones exactly the live rows that satisfy the first clause and reports their
\* number, and an UPDATE with such a list that succeeds reports that number and leaves
\* every other row as it was.
C18_FirstClauseOnly ==
    \A where \in WhereLists :
        /\ LET done == dbDelete(("t" :> table), DeleteQuery(where))
           IN /\ done.tables["t"].deletedIndices
                    = table.deletedIndices \cup MatchingFirst(table, where)
              /\ done.result.rowCount = Cardinality(MatchingFirst(table, where))
        /\ LET done == dbUpdate(("t" :> table), UpdateQuery(<<Entry("v", Num(MaxVal))>>, where))
           IN done.result.success
              => /\ done.result.rowCount = Cardinality(MatchingFirst(table, where))
                 /\ \A p \in LiveSet(table) \ MatchingFirst(table, where) :
                       done.tables["t"].rows[p + 1] = table.rows[p + 1]

\* two truth values under a connector, and the WHERE list of at most three clauses read
\* as ((c1 k1 c2) k2 c3)
Connect(k, x, y) == IF k = "OR" THEN x \/ y ELSE x /\ y
LeftToRight(row, where) ==
    IF Len(where) = 1 THEN evaluateClause(row, where[1])
    ELSE IF Len(where) = 2
    THEN Connect(where[1].connector, evaluateClause(row, where[1]), evaluateClause(row, where[2]))
    ELSE Connect(where[2].connector,
                 Connect(where[1].connector, evaluateClause(row, where[1]),
                         evaluateClause(row, where[2])),
                 evaluateClause(row, where[3]))

\* C19: when execute runs a SELECT with a WHERE list of two or three clauses (no join, no
\* limit), the rows kept are exactly the live rows for which ((c1 k1 c2) k2 c3) holds, ki
\* the connector recorded on clause i; for WHERE id = 1 OR v = 2 AND v = 1 the connectors
\* recorded are OR, AND and the rows are those with (id = 1 OR v = 2) AND v = 1.
C19_WhereFoldsLeftToRight ==
    [][ (pc = "executeQuery" /\ query.type = "SELECT" /\ HasTable(tables, query.table)
         /\ Len(query.where) \in {2, 3} /\ query.joins = <<>> /\ ~query.limit.defined)
        => LET rows == getRows(tables[query.table])
               kept == SelectSeq(rows, LAMBDA row : LeftToRight(row, query.where))
           IN /\ applyWhere(rows, query.where) = kept
              /\ result'.success /\ result'.rowCount = Len(kept)
              /\ sql = SelectThreeClauses
                    => /\ query.where[1].connector = "OR" /\ query.where[2].connector = "AND"
                       /\ kept = SelectSeq(rows, LAMBDA row :
                                     (row["id"] = Num(1) \/ row["v"] = Num(2))
                                     /\ row["v"] = Num(1))
      ]_vars

\* C19, witness: SELECT * FROM t WHERE id = 1 OR v = 2 AND v = 1 returned no row from a
\* table whose only row {id: 1, v: 2} satisfies id = 1 OR (v = 2 AND v = 1).
C19_NoPrecedence ==
    /\ pc = "returned" /\ sql = SelectThreeClauses /\ Len(query.where) = 3
    /\ HasTable(tables, "t")
    /\ getRows(tables["t"]) = << ("id" :> Num(1)) @@ ("v" :> Num(2)) >>
    /\ result.success /\ result.rowCount = 0

\* the operators of a WHERE clause
Operators == {"=", "!=", ">", "<", ">=", "<=", "LIKE"}

\* C20: in every reachable table state, for every live row, column, operator and compared
\* value of which the row's value or the compared value is null, Table.evaluateCondition
\* and Database.evaluateClause both yield true exactly when the operator is '=' and both
\* sides are null.
C20_NullPredicate ==
    \A p \in LiveSet(table) : \A c \in ColumnNames(table.columns) :
        \A op \in Operators : \A v \in WhereValues :
            LET row == table.rows[p + 1]
                expected == op = "=" /\ row[c] = Null /\ v = Null
            IN (row[c] = Null \/ v = Null)
               => /\ evaluateCondition(row[c], op, v) = expected
                  /\ evaluateClause(row, Clause(Where(c, op, v), "")) = expected

\* C20, witness: a live row holds null in v and a number in id; v = NULL is true of it,
\* v != 1 and id != NULL are false.
C20_NullCompared ==
    \E p \in LiveSet(table) :
        /\ table.rows[p + 1]["v"] = Null /\ table.rows[p + 1]["id"] # Null
        /\ evaluateCondition(table.rows[p + 1]["v"], "=", Null)
        /\ ~evaluateCondition(table.rows[p + 1]["v"], "!=", Num(1))
        /\ ~evaluateClause(table.rows[p + 1], Clause(Where("id", "!=", Null), ""))

\* the ORDER BY lists offered: one key, or two keys, each ascending or descending
OrderKey(c, d) == [column |-> c, direction |-> d]
OrderLists ==
    {<<OrderKey(c, d)>> : c \in {"id", "v"}, d \in {"ASC", "DESC"}}
    \cup {<<OrderKey("v", d), OrderKey("id", e)>> : d \in {"ASC", "DESC"}, e \in {"ASC", "DESC"}}

\* row a comes before row b on one key: null first and numbers rising under ASC, numbers
\* falling and null last under DESC
KeyBefore(a, b, key) ==
    LET x == a[key.column]
        y == b[key.column]
    IN IF key.direction = "DESC"
       THEN (x # Null /\ y = Null) \/ (x # Null /\ y # Null /\ x.n > y.n)
       ELSE (x = Null /\ y # Null) \/ (x # Null /\ y # Null /\ x.n < y.n)
\* row a comes before row b on the first key of the list on which they differ
Before(a, b, orderBy) ==
    \E k \in 1..Len(orderBy) :
        /\ KeyBefore(a, b, orderBy[k])
        /\ \A m \in 1..(k - 1) : a[orderBy[m].column] = b[orderBy[m].column]
Tied(a, b, orderBy) == \A k \in 1..Len(orderBy) : a[orderBy[k].column] = b[orderBy[k].column]
\* the place of input row i in the output of a stable sort by the key list
PlaceOf(rows, i, orderBy) ==
    1 + Cardinality({j \in 1..Len(rows) : Before(rows[j], rows[i], orderBy)})
      + Cardinality({j \in 1..(i - 1) : Tied(rows[j], rows[i], orderBy)})

\* C21: in every reachable table state and for every ORDER BY list, the rows ORDER BY
\* returns are the live rows, each at the place given by: rows differing on the first
\* key they differ on are ordered by it (null first under ASC, last under DESC), and rows
\* equal on all keys keep their input order.
C21_OrderBy ==
    \A orderBy \in OrderLists :
        LET rows == getRows(table)
            sorted == applyOrderBy(rows, orderBy)
        IN /\ Len(sorted) = Len(rows)
           /\ \A i \in 1..Len(rows) : sorted[PlaceOf(rows, i, orderBy)] = rows[i]

\* C21, witness: the live rows hold v = 2, null, 1 in this order; ORDER BY v gives
\* null, 1, 2 and ORDER BY v DESC gives 2, 1, null.
C21_NullFirstAscending ==
    LET rows == getRows(table)
        asc == applyOrderBy(rows, <<OrderKey("v", "ASC")>>)
        desc == applyOrderBy(rows, <<OrderKey("v", "DESC")>>)
    IN /\ Len(rows) = 3
       /\ <<rows[1]["v"], rows[2]["v"], rows[3]["v"]>> = <<Num(2), Null, Num(1)>>
       /\ <<asc[1]["v"], asc[2]["v"], asc[3]["v"]>> = <<Null, Num(1), Num(2)>>
       /\ <<desc[1]["v"], desc[2]["v"], desc[3]["v"]>> = <<Num(2), Num(1), Null>>

\* the rows a SELECT returns from the table t registered under its name
SelectedRows(t, q) ==
    selectRows(q, applyJoins((q.table :> t),
                             IF Len(q.where) > 0 THEN applyWhere(getRows(t), q.where)
                             ELSE getRows(t),
                             q.joins, 1, q.table).rows)
\* the SELECT statements offered, without LIMIT: every column or a column list under
\* three ORDER BY lists, and two statements with a self-join, one with a WHERE clause
SelectOf(columns, where, joins, orderBy) ==
    [EmptyQuery EXCEPT !.type = "SELECT", !.table = "t", !.all = (columns = <<>>),
                       !.columns = columns, !.where = where, !.joins = joins,
                       !.orderBy = orderBy]
SelfJoin == [type |-> "LEFT", table |-> "t", leftColumn |-> "id", rightColumn |-> "v"]
SelectQueries ==
    {SelectOf(columns, <<>>, <<>>, orderBy) :
        columns \in {<<>>, <<"id">>},
        orderBy \in {<<>>, <<OrderKey("v", "ASC")>>, <<OrderKey("id", "DESC")>>}}
    \cup {SelectOf(<<>>, <<Clause(Where("v", "=", Num(1)), "")>>, <<SelfJoin>>,
                   <<OrderKey("id", "DESC")>>),
          SelectOf(<<"id">>, <<>>, <<SelfJoin>>, <<OrderKey("v", "ASC")>>)}
Limit(n) == [defined |-> TRUE, nan |-> FALSE, n |-> n]
Min(a, b) == IF a < b THEN a ELSE b

\* C22: in every reachable table state, for every SELECT and every n, the rows returned
\* with LIMIT n are the first min(n, total) rows of the same SELECT without LIMIT, in
\* the same order, and the rows without LIMIT are where, join, projection and ORDER BY
\* applied in this order; the result reports the number of rows returned.
C22_LimitTruncates ==
    \A q \in SelectQueries :
        LET all == SelectedRows(table, q)
            based == IF Len(q.where) > 0 THEN applyWhere(getRows(table), q.where)
                     ELSE getRows(table)
            joined == IF Len(q.joins) > 0
                      THEN performJoin(based, getRows(table), q.joins[1], "t", "t")
                      ELSE based
            projected == project(joined, q)
        IN /\ all = IF Len(q.orderBy) > 0 THEN applyOrderBy(projected, q.orderBy)
                    ELSE projected
           /\ dbSelect(("t" :> table), q).result.rowCount = Len(all)
           /\ \A n \in {0, 1, 2, MaxTableCalls} :
                 SelectedRows(table, [q EXCEPT !.limit = Limit(n)])
                    = SubSeq(all, 1, Min(n, Len(all)))

\* C22, witness: the live rows hold the ids 1, 2, 3 in this order; SELECT * FROM t
\* ORDER BY id DESC LIMIT 2 returns the rows with the ids 3 and 2.
C22_OrderedThenCut ==
    LET q == [EmptyQuery EXCEPT !.type = "SELECT", !.table = "t", !.all = TRUE,
                                !.orderBy = <<OrderKey("id", "DESC")>>, !.limit = Limit(2)]
        rows == getRows(table)
    IN /\ Len(rows) = 3
       /\ <<rows[1]["id"], rows[2]["id"], rows[3]["id"]>> = <<Num(1), Num(2), Num(3)>>
       /\ Len(SelectedRows(table, q)) = 2
       /\ SelectedRows(table, q)[1]["id"] = Num(3)
       /\ SelectedRows(table, q)[2]["id"] = Num(2)

\* the rows of a second table u(uid, w), built from the live rows of t: uid holds the
\* row's v and w its id
RowsOfU(t) ==
    [j \in 1..Len(getRows(t)) |->
        ("uid" :> getRows(t)[j]["v"]) @@ ("w" :> getRows(t)[j]["id"])]
JoinOn(type) == [type |-> type, table |-> "u", leftColumn |-> "id", rightColumn |-> "uid"]
\* the right rows that match a left row on t.id = u.uid
MatchesOf(leftRow, rightRows) ==
    SelectSeq(rightRows, LAMBDA r : leftRow["id"] = r["uid"])
\* the number of output rows the left rows 1..i account for
RECURSIVE RowsUpTo(_, _, _, _)
RowsUpTo(leftRows, rightRows, type, i) ==
    IF i = 0 THEN 0
    ELSE RowsUpTo(leftRows, rightRows, type, i - 1)
         + (IF Len(MatchesOf(leftRows[i], rightRows)) > 0
            THEN Len(MatchesOf(leftRows[i], rightRows))
            ELSE IF type = "LEFT" THEN 1 ELSE 0)

\* C23: in every reachable table state, t LEFT JOIN u ON t.id = u.uid returns, left row
\* by left row, one combined row per matching right row (the keys of both tables,
\* unqualified and qualified), and for a left row without a match one row whose keys are
\* id, v, t.id and t.v only; INNER JOIN returns the combined rows alone.
C23_LeftJoin ==
    \A type \in {"LEFT", "INNER"} :
        LET L == getRows(table)
            R == RowsOfU(table)
            out == performJoin(L, R, JoinOn(type), "t", "u")
        IN /\ Len(out) = RowsUpTo(L, R, type, Len(L))
           /\ \A i \in 1..Len(L) :
                 LET matches == MatchesOf(L[i], R)
                     start == RowsUpTo(L, R, type, i - 1)
                 IN IF Len(matches) > 0
                    THEN \A m \in 1..Len(matches) :
                            out[start + m] =
                                [k \in {"id", "v", "t.id", "t.v", "uid", "w", "u.uid", "u.w"} |->
                                    CASE k \in {"id", "t.id"} -> L[i]["id"]
                                      [] k \in {"v", "t.v"} -> L[i]["v"]
                                      [] k \in {"uid", "u.uid"} -> matches[m]["uid"]
                                      [] OTHER -> matches[m]["w"]]
                    ELSE type = "LEFT"
                         => out[start + 1] =
                                [k \in {"id", "v", "t.id", "t.v"} |->
                                    IF k \in {"id", "t.id"} THEN L[i]["id"] ELSE L[i]["v"]]

\* C23, witness: of two left rows the first has a match in u and the second has none;
\* the LEFT JOIN returns two rows, the second without any key of u, and the INNER JOIN
\* returns one row.
C23_UnmatchedLeftRow ==
    LET L == getRows(table)
        R == RowsOfU(table)
        out == performJoin(L, R, JoinOn("LEFT"), "t", "u")
    IN /\ Len(L) = 2
       /\ Len(MatchesOf(L[1], R)) = 1 /\ Len(MatchesOf(L[2], R)) = 0
       /\ Len(out) = 2
       /\ DOMAIN out[1] = {"id", "v", "t.id", "t.v", "uid", "w", "u.uid", "u.w"}
       /\ DOMAIN out[2] = {"id", "v", "t.id", "t.v"}
       /\ Len(performJoin(L, R, JoinOn("INNER"), "t", "u")) = 1

\* the (key, position) pairs of a tree's slots and the number of positions they hold
EntryPairs(entries) ==
    UNION {{<<entries[j].key, entries[j].indices[k]>> : k \in 1..Len(entries[j].indices)} :
              j \in 1..Len(entries)}
RECURSIVE EntryPositions(_, _)
EntryPositions(entries, j) ==
    IF j > Len(entries) THEN 0 ELSE Len(entries[j].indices) + EntryPositions(entries, j + 1)
\* the createIndex calls examined: those of IndexCalls and a second index on id
IndexRequests ==
    IndexCalls \cup {[name |-> "idx_id", column |-> "id", unique |-> FALSE]}

\* C24: in every reachable table state, createIndex with a name in use or a column that
\* is not in the schema throws and leaves the table, its index registry included, as it
\* was; any other call appends one index to the registry, leaves the rest of the table
\* alone, and the new tree's slots hold, once each, the positions of the live rows under
\* their column value, one slot per value, and search finds them.
C24_CreateIndex ==
    \A ix \in IndexRequests :
        LET r == createIndex(table, ix.name, ix.column, ix.unique)
        IN IF HasIndexNamed(table, ix.name) \/ ~HasColumn(table.columns, ix.column)
           THEN r.error # "none" /\ r.table = table
           ELSE LET made == r.table.indexes[Len(r.table.indexes)]
                    entries == getAllEntries(made.tree)
                IN /\ r.error = "none"
                   /\ r.table = [table EXCEPT !.indexes = Append(@, made)]
                   /\ made.name = ix.name /\ made.column = ix.column
                   /\ made.unique = ix.unique
                   /\ EntryPairs(entries)
                        = {<<table.rows[p + 1][ix.column], p>> : p \in LiveSet(table)}
                   /\ EntryPositions(entries, 1) = Cardinality(LiveSet(table))
                   /\ \A j, k \in 1..Len(entries) : entries[j].key = entries[k].key => j = k
                   /\ \A j \in 1..Len(entries) :
                        BTreeSearch(made.tree, entries[j].key) = entries[j].indices

\* C24, witness: createIndex on v has just succeeded on a table with a tombstone and two
\* live rows; the new index is the last of the registry and holds the two live positions.
C24_IndexBuiltOverTombstone ==
    /\ last.op = "createIndex" /\ last.error = "none"
    /\ table.deletedIndices # {}
    /\ Cardinality(LiveSet(table)) = 2
    /\ table.indexes[Len(table.indexes)].name = "idx_v"
    /\ EntryPositions(getAllEntries(table.indexes[Len(table.indexes)].tree), 1) = 2

\* C24, witness of the failure case: createIndex has just thrown on a table that holds
\* rows, and the registry still holds the primary-key index alone.
C24_CreateIndexThrew ==
    /\ last.op = "createIndex" /\ last.error # "none"
    /\ Len(table.rows) > 0
    /\ Len(table.indexes) = 1

\* the columns of a column list that are PRIMARY KEY or UNIQUE, in order
KeyColumns(defs) == SelectSeq(defs, LAMBDA col : col.primaryKey \/ col.unique)
\* the table a successful CREATE TABLE is to register: no rows, no tombstones, one empty
\* unique index per PRIMARY KEY / UNIQUE column, a counter at 0 per AUTO_INCREMENT column
FreshTable(name, defs) ==
    [name |-> name, columns |-> defs, rows |-> <<>>, deletedIndices |-> {},
     indexes |-> [j \in 1..Len(KeyColumns(defs)) |->
                     [name |-> "idx_" \o name \o "_" \o KeyColumns(defs)[j].name,
                      column |-> KeyColumns(defs)[j].name, unique |-> TRUE,
                      tree |-> createNode(TRUE)]],
     autoIncrementCounters |->
        [c \in {defs[j].name : j \in {m \in 1..Len(defs) : defs[m].autoIncrement}} |-> 0]]
CreatesTable == pc = "executeQuery" /\ query.type = "CREATE_TABLE"

\* C25: when execute runs a CREATE TABLE, a name already registered gives success = false
\* and leaves every table and the registry as they were; a fresh name gives success and
\* registers an empty table with one unique index per PRIMARY KEY / UNIQUE column, the
\* other tables staying as they were.
C25_CreateTable ==
    [][ CreatesTable
        => /\ pc' = "returned"
           /\ IF HasTable(tables, query.table)
              THEN ~result'.success /\ tables' = tables
              ELSE /\ result'.success
                   /\ tables' = (query.table :> FreshTable(query.table, query.defs)) @@ tables
      ]_vars

\* C25 for the column lists in which no two PRIMARY KEY / UNIQUE columns share a name;
\* for the others a fresh name gives success = false and registers nothing.
C25_CreateTableDistinctKeys ==
    [][ CreatesTable
        => /\ pc' = "returned"
           /\ IF HasTable(tables, query.table)
              THEN ~result'.success /\ tables' = tables
              ELSE IF \A j, k \in 1..Len(KeyColumns(query.defs)) :
                         KeyColumns(query.defs)[j].name = KeyColumns(query.defs)[k].name => j = k
              THEN /\ result'.success
                   /\ tables' = (query.table :> FreshTable(query.table, query.defs)) @@ tables
              ELSE ~result'.success /\ tables' = tables
      ]_vars
\* CREATE TABLE t (id INT PRIMARY KEY AUTO_INCREMENT, v INT) has run on an empty registry
C25_TableRegistered ==
    /\ execs = 1 /\ pc = "returned" /\ query.type = "CREATE_TABLE" /\ result.success
    /\ HasTable(tables, "t") /\ Len(tables["t"].indexes) = 1
\* CREATE TABLE t (v INT UNIQUE, v INT UNIQUE) has run on an empty registry and failed
C25_RepeatedKeyColumn ==
    /\ execs = 1 /\ pc = "returned" /\ query.type = "CREATE_TABLE" /\ ~result.success
    /\ Len(query.defs) = 2 /\ ~HasTable(tables, "t")

\* the statement kinds that resolve a table before doing anything else
TableStatements == {"DROP_TABLE", "CREATE_INDEX", "INSERT", "UPDATE", "DELETE", "SELECT"}
\* the joins of a SELECT that name a table the registry does not hold
MissingJoins(ts, q) == {j \in 1..Len(q.joins) : ~HasTable(ts, q.joins[j].table)}
NamesMissingTable(ts, q) ==
    /\ q.type \in TableStatements
    /\ ~HasTable(ts, q.table) \/ (q.type = "SELECT" /\ MissingJoins(ts, q) # {})
\* the first table the statement looks up and does not find
FirstMissing(ts, q) ==
    IF ~HasTable(ts, q.table) THEN q.table
    ELSE q.joins[CHOOSE j \in MissingJoins(ts, q) : \A k \in MissingJoins(ts, q) : j <= k].table
JoinWith(name) == [type |-> "INNER", table |-> name, leftColumn |-> "id", rightColumn |-> "id"]
\* statements of every kind on a table u, and SELECTs from t that join u
QueriesOnU ==
    {[EmptyQuery EXCEPT !.type = type, !.table = "u", !.all = TRUE,
                        !.values = <<<<Num(1)>>>>, !.set = <<Entry("v", Num(1))>>,
                        !.name = "i", !.indexColumn = "v"] : type \in TableStatements}
    \cup {[EmptyQuery EXCEPT !.type = "SELECT", !.table = "t", !.all = TRUE, !.joins = joins] :
             joins \in {<<JoinWith("u")>>, <<JoinWith("t"), JoinWith("u")>>}}
\* executeQuery on a statement that names a missing table fails with the message that
\* names it and returns the registry it was given
FailsAsMissing(ts, q) ==
    LET done == executeQuery(ts, q)
    IN /\ ~done.threw
       /\ ~done.result.success
       /\ done.result.message = "Table " \o Show(FirstMissing(ts, q)) \o " does not exist"
       /\ done.tables = ts

\* C26: whenever execute runs a DROP TABLE, CREATE INDEX, INSERT, UPDATE, DELETE or
\* SELECT whose table (or, for SELECT, one of whose JOIN tables) is not registered, it
\* returns success = false with the message "Table <name> does not exist" and the
\* registry with all its tables is as before; and in every registry reached the same
\* holds of each such statement on a table u and of a SELECT from t that joins u.
C26_TableNotFound ==
    [][ /\ (pc = "executeQuery" /\ NamesMissingTable(tables, query))
           => /\ pc' = "returned"
              /\ ~result'.success
              /\ result'.message
                    = "Table " \o Show(FirstMissing(tables, query)) \o " does not exist"
              /\ tables' = tables
        /\ \A q \in QueriesOnU : FailsAsMissing(tables, q) /\ FailsAsMissing(tables', q)
      ]_vars

\* C26, witness: CREATE TABLE t, an INSERT that stored a row, and then a DROP TABLE
\* without a table name has returned "does not exist"; t still holds its row, and a
\* SELECT from t that joins u would fail the same way.
C26_MissingWhileTableHoldsRows ==
    /\ execs = 3 /\ pc = "returned"
    /\ query.type = "DROP_TABLE" /\ query.table # "t"
    /\ ~result.success
    /\ HasTable(tables, "t") /\ Len(getRows(tables["t"])) = 1
    /\ \A q \in QueriesOnU : FailsAsMissing(tables, q)

\* the columns id INT PRIMARY KEY AUTO_INCREMENT, v INT as parseCreateTable builds them
ColumnsIdV ==
    <<[NoColumn EXCEPT !.name = "id", !.type = "int", !.primaryKey = TRUE, !.notNull = TRUE,
                       !.autoIncrement = TRUE],
      [NoColumn EXCEPT !.name = "v", !.type = "int"]>>
CreateOf(name) ==
    [EmptyQuery EXCEPT !.type = "CREATE_TABLE", !.table = name, !.defs = ColumnsIdV]
DropOf(name) == [EmptyQuery EXCEPT !.type = "DROP_TABLE", !.table = name]
InsertInto(name) ==
    [EmptyQuery EXCEPT !.type = "INSERT", !.table = name, !.columns = <<"v">>,
                       !.values = <<<<Num(1)>>>>]
\* statements of every kind but CREATE TABLE on the table t
QueriesOnT ==
    {[EmptyQuery EXCEPT !.type = type, !.table = "t", !.all = TRUE,
                        !.values = <<<<Num(1)>>>>, !.set = <<Entry("v", Num(1))>>,
                        !.name = "i", !.indexColumn = "v"] : type \in TableStatements}
\* the registry after CREATE TABLE u (id INT PRIMARY KEY AUTO_INCREMENT, v INT) and
\* INSERT INTO u (v) VALUES (1)
WithTableU(ts) ==
    executeQuery(executeQuery(ts, CreateOf("u")).tables, InsertInto("u")).tables
\* DROP TABLE t, then CREATE TABLE t (id ..., v INT), then INSERT INTO t (v) VALUES (1),
\* run from a registry that holds t and u
DropCreateInsert(ts) ==
    LET dropped == executeQuery(ts, DropOf("t"))
        created == executeQuery(dropped.tables, CreateOf("t"))
        inserted == executeQuery(created.tables, InsertInto("t"))
    IN /\ dropped.result.success
       /\ dropped.tables = [n \in {"u"} |-> ts["u"]]
       /\ \A q \in QueriesOnT : FailsAsMissing(dropped.tables, q)
       /\ created.result.success
       /\ created.tables = ("t" :> FreshTable("t", ColumnsIdV)) @@ dropped.tables
       /\ inserted.result.success
       /\ inserted.tables["u"] = ts["u"]
       /\ getRows(inserted.tables["t"]) = <<("id" :> Num(1)) @@ ("v" :> Num(1))>>

\* C27: a DROP TABLE of a registered table succeeds and removes that entry alone from the
\* registry; while t is not registered every statement on t fails as table-not-found,
\* and t comes back only through a CREATE TABLE t, as a table with no rows, no
\* tombstones, the auto-built indexes only and every counter at 0; and from every
\* registry that holds t, next to a second table u, DROP TABLE t leaves u as it was, and
\* CREATE TABLE t followed by an INSERT stores the row with id 1 in the new table.
C27_DropDiscards ==
    [][ /\ (pc = "executeQuery" /\ query.type = "DROP_TABLE" /\ HasTable(tables, query.table))
           => /\ pc' = "returned" /\ result'.success
              /\ tables' = [n \in DOMAIN tables \ {query.table} |-> tables[n]]
        /\ ~HasTable(tables, "t")
           => /\ \A q \in QueriesOnT : FailsAsMissing(tables, q)
              /\ HasTable(tables', "t")
                 => /\ pc = "executeQuery" /\ query.type = "CREATE_TABLE" /\ query.table = "t"
                    /\ tables'["t"] = FreshTable("t", query.defs)
        /\ HasTable(tables, "t") => DropCreateInsert(WithTableU(tables))
      ]_vars

\* C27, witness: three statements have run, the first created t and the last, DROP TABLE
\* t, succeeded; t is gone and every statement on t fails as table-not-found.
C27_Dropped ==
    /\ execs = 3 /\ pc = "returned" /\ query.type = "DROP_TABLE" /\ result.success
    /\ sql = <<"DROP", "TABLE", "t">>
    /\ ~HasTable(tables, "t")
    /\ \A q \in QueriesOnT : FailsAsMissing(tables, q)
\* a table t that holds a row is about to be dropped
C27_DropOfUsedTable ==
    /\ pc = "executeQuery" /\ query.type = "DROP_TABLE" /\ query.table = "t"
    /\ HasTable(tables, "t")
    /\ Len(tables["t"].rows) > 0

\* the database Database.deserialize(db.serialize()) makes of the registry
Reloaded(ts) == deserialize(serialize(ts))

\* C28: in every state reached through execute, deserialize(serialize()) returns a
\* database with the same table names, each table with the same name and columns and
\* the same live rows in the same order.
C28_RoundTrip ==
    \E back \in {Reloaded(tables)} :
        /\ ~back.threw
        /\ DOMAIN back.tables = DOMAIN tables
        /\ \A name \in DOMAIN tables :
              /\ back.tables[name].name = tables[name].name
              /\ back.tables[name].columns = tables[name].columns
              /\ getRows(back.tables[name]) = getRows(tables[name])

\* a live row holds null in an AUTO_INCREMENT column
NullInAutoColumn(t) ==
    \E j \in 1..Len(getRows(t)) : \E c \in DOMAIN t.autoIncrementCounters :
        getRows(t)[j][c].t = "null"
\* C28 for the states in which no live row holds null in an AUTO_INCREMENT column
C28_RoundTripWithoutNullAuto ==
    (\A name \in DOMAIN tables : ~NullInAutoColumn(tables[name])) => C28_RoundTrip

\* C29: in every state reached through execute, the database deserialize(serialize())
\* returns has every AUTO_INCREMENT counter at 0, and an insert into it that gives no
\* value for such a column assigns 1.
C29_CountersRestart ==
    \E back \in {Reloaded(tables)} :
        ~back.threw
        => \A name \in DOMAIN back.tables :
              \A c \in DOMAIN back.tables[name].autoIncrementCounters :
                 /\ back.tables[name].autoIncrementCounters[c] = 0
                 /\ insertColumns(back.tables[name].columns, <<>>,
                                  back.tables[name].autoIncrementCounters,
                                  [k \in ColumnNames(back.tables[name].columns) |-> Null],
                                  1).row[c] = Num(1)
\* C29 for the states in which no live row holds null in an AUTO_INCREMENT column
C29_CountersRestartWithoutNullAuto ==
    (\A name \in DOMAIN tables : ~NullInAutoColumn(tables[name])) => C29_CountersRestart
\* a table whose counter is above 0 and that holds a live row with id 1
C29_StoredOneCounterAbove ==
    /\ HasTable(tables, "t")
    /\ "id" \in DOMAIN tables["t"].autoIncrementCounters
    /\ tables["t"].autoIncrementCounters["id"] > 0
    /\ \E j \in 1..Len(getRows(tables["t"])) : getRows(tables["t"])[j]["id"] = Num(1)
    /\ C29_CountersRestart

\* every internal node has one child more than it has keys
RECURSIVE ChildrenMatchKeys(_)
ChildrenMatchKeys(node) ==
    node.isLeaf
    \/ /\ Len(node.children) = Len(node.keys) + 1
       /\ \A c \in 1..Len(node.children) : ChildrenMatchKeys(node.children[c])
\* the slots of a list of entries that hold the key
SlotsOf(entries, key) == {e \in 1..Len(entries) : entries[e].key = key}
\* what insert(key, rowIndex) is to do to the tree given
InsertKeepsOneSlot(root, key, rowIndex) ==
    LET before == getAllEntries(root)
        inserted == BTreeInsert(root, key, rowIndex)
        after == getAllEntries(inserted)
        slots == SlotsOf(before, key)
    IN /\ Cardinality(SlotsOf(after, key)) = 1
       /\ \A other \in BKeys \ {key} :
             BTreeSearch(inserted, other) = BTreeSearch(root, other)
       /\ IF \E e \in slots : Includes(before[e].indices, rowIndex)
          THEN /\ after = before
               /\ BTreeSearch(inserted, key) = BTreeSearch(root, key)
          ELSE IF slots # {}
          THEN /\ \E e \in slots : after = [before EXCEPT ![e].indices = Append(@, rowIndex)]
               /\ BTreeSearch(inserted, key) = Append(BTreeSearch(root, key), rowIndex)
          ELSE /\ Len(after) = Len(before) + 1
               /\ BTreeSearch(inserted, key) = <<rowIndex>>

\* C30: for every tree reached by insert and delete calls and every pair (key,
\* position): after insert the key has exactly one slot and the other keys are found as
\* before; a pair already stored leaves getAllEntries and search as they were; a new
\* position for a stored key is appended to that key's list, in a leaf or an internal
\* node alike.
C30_InsertIdempotent ==
    \A k \in BKeys, p \in BPositions : InsertKeepsOneSlot(tree, k, p)

\* C30 for the trees in which every internal node has one child more than keys, which
\* the trees built by insert calls alone are
C30_InsertIdempotentWellFormed ==
    ChildrenMatchKeys(tree) => C30_InsertIdempotent
\* the root is an internal node, and a second position for its key is appended there
C30_SecondPositionInRoot ==
    /\ ~tree.isLeaf /\ Len(tree.keys) = 1 /\ ChildrenMatchKeys(tree)
    /\ tree.values[1] = <<0>>
    /\ BTreeInsert(tree, tree.keys[1], 1).values[1] = <<0, 1>>
    /\ treeRet.op = "insert"

\* the largest number of keys a node of the tree holds
RECURSIVE MostKeys(_)
RECURSIVE MostKeysFrom(_, _)
MostKeysFrom(children, j) ==
    IF j > Len(children) THEN 0
    ELSE LET here == MostKeys(children[j])
             rest == MostKeysFrom(children, j + 1)
         IN IF here > rest THEN here ELSE rest
MostKeys(node) ==
    LET below == MostKeysFrom(node.children, 1)
    IN IF Len(node.keys) > below THEN Len(node.keys) ELSE below
\* the 1-based place of the median of a full node
Median == (ORDER - 1) \div 2 + 1
\* insert(key, rowIndex) on a full root: the new root holds the median key of the old
\* root with its position list, and the halves of the old root are its children
SplitsFullRoot(root, key, rowIndex) ==
    LET after == BTreeInsert(root, key, rowIndex)
    IN Len(root.keys) = ORDER - 1
       => /\ ~after.isLeaf
          /\ after.keys = <<root.keys[Median]>>
          /\ after.values[1] = IF key = root.keys[Median] /\ ~Includes(root.values[Median], rowIndex)
                               THEN Append(root.values[Median], rowIndex)
                               ELSE root.values[Median]
          /\ Len(after.children) = 2
          /\ SeqToSet(root.keys) \ {root.keys[Median]}
                \subseteq SeqToSet(after.children[1].keys) \cup SeqToSet(after.children[2].keys)
          /\ \A i \in 1..(Median - 1) : Includes(after.children[1].keys, root.keys[i])
          /\ \A i \in (Median + 1)..(ORDER - 1) : Includes(after.children[2].keys, root.keys[i])
          /\ Len(after.children[1].keys) < ORDER /\ Len(after.children[2].keys) < ORDER
\* insert(key, rowIndex) on an internal root that is not full and does not hold the key:
\* when the child the key belongs to is full, its median key and position list move
\* into the root at the child's place before the insert goes on below
SplitsFullChild(root, key, rowIndex) ==
    LET after == BTreeInsert(root, key, rowIndex)
        c == RightScan(root.keys, key) + 1
    IN (/\ ~root.isLeaf /\ Len(root.keys) < ORDER - 1
        /\ \A i \in 1..Len(root.keys) : root.keys[i] # key
        /\ c <= Len(root.children)
        /\ Len(root.children[c].keys) = ORDER - 1)
       => /\ Len(after.keys) = Len(root.keys) + 1
          /\ after.keys[c] = root.children[c].keys[Median]
          /\ SubSeq(after.values[c], 1, Len(root.children[c].values[Median]))
                = root.children[c].values[Median]
          /\ Len(after.children) = Len(root.children) + 1

\* C31: after any sequence of inserts and deletes no node holds more than ORDER - 1 keys,
\* and for every pair offered to insert, a full root, or a full child the insert is
\* about to descend into, is split first, its median key and position list moving up.
C31_NodesBounded ==
    /\ MostKeys(tree) <= ORDER - 1
    /\ \A k \in BKeys, p \in BPositions :
          /\ SplitsFullRoot(tree, k, p)
          /\ SplitsFullChild(tree, k, p)
          /\ MostKeys(BTreeInsert(tree, k, p)) <= ORDER - 1

\* C31, witness: an insert has just split a full child: the root holds two keys and
\* three children after the root itself had been split earlier.
C31_ChildSplit ==
    /\ treeRet.op = "insert"
    /\ ~tree.isLeaf /\ Len(tree.keys) = 2 /\ Len(tree.children) = 3
    /\ MostKeys(tree) <= ORDER - 1

\* some slot of the tree holds an empty position list
RECURSIVE HasEmptyList(_)
HasEmptyList(node) ==
    \/ \E i \in 1..Len(node.values) : node.values[i] = <<>>
    \/ \E c \in 1..Len(node.children) : HasEmptyList(node.children[c])
\* what delete(key, rowIndex) is to do, the pairs present being those of present
DeleteRemovesPair(root, present, key, rowIndex) ==
    LET r == BTreeDelete(root, key, rowIndex)
        held == BTreeSearch(root, key)
    IN /\ r.found <=> rowIndex \in present[key]
       /\ ~HasEmptyList(r.node)
       /\ IF r.found
          THEN /\ BTreeSearch(r.node, key) = SelectSeq(held, LAMBDA q : q # rowIndex)
               /\ Len(held) = 1
                  => \A e \in 1..Len(getAllEntries(r.node)) :
                        getAllEntries(r.node)[e].key # key
          ELSE r.node = root

\* C32: after any sequence of inserts and deletes no slot holds an empty position list,
\* and for every pair: delete returns true exactly when the pair was inserted and not
\* deleted since, it then removes the position from the key's list, and the slot with
\* it when the list gets empty; otherwise it returns false and leaves the tree alone.
C32_DeleteRemovesPair ==
    /\ ~HasEmptyList(tree)
    /\ \A k \in BKeys, p \in BPositions : DeleteRemovesPair(tree, refMap, k, p)

\* C32 for the trees in which every internal node has one child more than keys
C32_DeleteRemovesPairWellFormed ==
    ChildrenMatchKeys(tree) => C32_DeleteRemovesPair

\* the bounds offered to searchRange: a key, or null for no bound
RangeBounds == BKeys \cup {Null}
\* the position lists of the entries whose key lies within the bounds, one after another
RECURSIVE ListsWithin(_, _, _, _)
ListsWithin(entries, from, to, j) ==
    IF j > Len(entries) THEN <<>>
    ELSE (IF /\ from.t = "null" \/ from.n <= entries[j].key.n
             /\ to.t = "null" \/ entries[j].key.n <= to.n
          THEN entries[j].indices
          ELSE <<>>)
         \o ListsWithin(entries, from, to, j + 1)
\* the slots of the tree, as getAllEntries lists them, are in strictly ascending key
\* order and hold, once each, the pairs inserted and not deleted since
HoldsReference(root, present) ==
    LET entries == getAllEntries(root)
    IN /\ \A j \in 1..(Len(entries) - 1) : entries[j].key.n < entries[j + 1].key.n
       /\ EntryPairs(entries) = {<<k, p>> : k \in BKeys, p \in BPositions} \cap
                                 {pair \in BKeys \X BPositions : pair[2] \in present[pair[1]]}
       /\ \A j \in 1..Len(entries) :
             Len(entries[j].indices) = Cardinality(SeqToSet(entries[j].indices))
SearchRangeExact(root, present) ==
    /\ HoldsReference(root, present)
    /\ \A from \in RangeBounds, to \in RangeBounds :
          searchRange(root, from, to) = ListsWithin(getAllEntries(root), from, to, 1)

\* C33: after any sequence of inserts and deletes and for all bounds (a key or null),
\* searchRange returns the positions of the pairs inserted and not deleted since whose
\* key lies within the bounds, each once, by ascending key and, within a key, in the
\* order of the key's position list.
C33_SearchRange == SearchRangeExact(tree, refMap)

\* C33 for the trees in which every internal node has one child more than keys
C33_SearchRangeWellFormed == ChildrenMatchKeys(tree) => C33_SearchRange

\* the keys the slots of a subtree hold
RECURSIVE KeysBelow(_)
KeysBelow(node) ==
    SeqToSet(node.keys) \cup UNION {KeysBelow(node.children[c]) : c \in 1..Len(node.children)}
\* the number of slots of a subtree that hold the key
RECURSIVE SlotsHolding(_, _)
RECURSIVE SlotsHoldingFrom(_, _, _)
SlotsHoldingFrom(children, key, j) ==
    IF j > Len(children) THEN 0
    ELSE SlotsHolding(children[j], key) + SlotsHoldingFrom(children, key, j + 1)
SlotsHolding(node, key) ==
    Cardinality({i \in 1..Len(node.keys) : node.keys[i] = key})
    + SlotsHoldingFrom(node.children, key, 1)
\* the structure of a B-tree node and of the nodes below it
RECURSIVE WellStructured(_)
WellStructured(node) ==
    /\ \A i \in 1..(Len(node.keys) - 1) : defaultComparator(node.keys[i], node.keys[i + 1]) < 0
    /\ node.isLeaf
       \/ /\ Len(node.children) = Len(node.keys) + 1
          /\ \A c \in 1..Len(node.children) :
                /\ WellStructured(node.children[c])
                /\ \A k \in KeysBelow(node.children[c]) :
                      /\ c > 1 => defaultComparator(node.keys[c - 1], k) < 0
                      /\ c <= Len(node.keys) => defaultComparator(k, node.keys[c]) < 0

\* C34: after any sequence of inserts and deletes every non-leaf node with k keys has
\* k + 1 children, the keys of a node are strictly increasing, every key below child i
\* lies strictly between the node's keys i - 1 and i, and no key is held by two slots.
C34_Structure ==
    /\ WellStructured(tree)
    /\ \A k \in BKeys : SlotsHolding(tree, k) <= 1

\* C34 for insert: an insert into a tree of that structure gives a tree of that structure
C34_InsertKeepsStructure ==
    [][ (treeRet'.op = "insert" /\ C34_Structure) => C34_Structure' ]_vars

\* the columns a unique index of the table is built on
UniquelyIndexed(t) == {t.indexes[j].column : j \in {i \in 1..Len(t.indexes) : t.indexes[i].unique}}
\* some live row holds the value in the column
HeldLive(t, column, value) == \E p \in LiveSet(t) : t.rows[p + 1][column] = value

\* Table.insert's unique check rejects a new row that holds the value in the column and
\* null in every other column
Rejects(t, column, value) ==
    insertDuplicate(t, [k \in ColumnNames(t.columns) |-> IF k = column THEN value ELSE Null])

\* C35: in every reachable table state that holds a tombstone, for every column under a
\* unique index and every number that no live row holds in that column, the unique check
\* of insert does not reject a row with that number in the column.
C35_TombstonesDoNotBlock ==
    \A c \in UniquelyIndexed(table) : \A x \in Nums :
        (table.deletedIndices # {} /\ ~HeldLive(table, c, x)) => ~Rejects(table, c, x)

\* every index of the table is a well-structured tree whose slots hold exactly the
\* (value, position) pairs of the live rows
IndexesExact(t) ==
    \A j \in 1..Len(t.indexes) :
        /\ WellStructured(t.indexes[j].tree)
        /\ EntryPairs(getAllEntries(t.indexes[j].tree))
              = {<<t.rows[p + 1][t.indexes[j].column], p>> : p \in LiveSet(t)}
\* C35 for a delete that starts from indexes that hold exactly the live rows: afterwards
\* the unique check rejects no number that no live row holds in the column
C35_DeleteFromExactIndexes ==
    [][ (last'.op = "delete" /\ IndexesExact(table) /\ table'.deletedIndices # table.deletedIndices)
        => \A c \in UniquelyIndexed(table') : \A x \in Nums :
              ~HeldLive(table', c, x) => ~Rejects(table', c, x)
      ]_vars

\* C36: an insert call that is rejected (NOT NULL, type or unique error) leaves the
\* auto-increment counters as they were.
C36_RejectedInsertKeepsCounters ==
    [][ (last'.op = "insert" /\ last'.error # "none")
        => table'.autoIncrementCounters = table.autoIncrementCounters ]_vars

\* what a rejected insert does keep: the rows, the indexes and the tombstones; and a
\* counter moves by one at most
C36_RejectedInsertKeepsRows ==
    [][ (last'.op = "insert" /\ last'.error # "none")
        => /\ table'.rows = table.rows
           /\ table'.indexes = table.indexes
           /\ table'.deletedIndices = table.deletedIndices
           /\ \A c \in DOMAIN table.autoIncrementCounters :
                 table'.autoIncrementCounters[c] \in
                     {table.autoIncrementCounters[c], table.autoIncrementCounters[c] + 1}
      ]_vars

\* the value insert assigns next in the auto-increment column
NextAuto(t, column) == Num(t.autoIncrementCounters[column] + 1)
\* the partial rows that leave the auto-increment key to the table
OmitsId == {data \in InsertData : "id" \notin DOMAIN data}

\* C37: in every reachable table state the value insert would assign next to the
\* auto-increment key is held by no live row, and an insert that omits the key is not
\* rejected as a duplicate.
C37_AutoKeyFresh ==
    /\ ~HeldLive(table, "id", NextAuto(table, "id"))
    /\ \A data \in OmitsId : insert(table, data).error # "duplicate"

\* the keys of the unique indexes on the column
UniqueKeysOn(t, column) ==
    UNION {{e[1] : e \in EntryPairs(getAllEntries(t.indexes[j].tree))} :
              j \in {i \in 1..Len(t.indexes) : t.indexes[i].unique /\ t.indexes[i].column = column}}
\* C37 while no key of the index on id is above the counter: the insert that omits the key
\* passes the unique check of id
C37_AutoKeyFreshBelowCounter ==
    (\A k \in UniqueKeysOn(table, "id") : k.t = "num" => k.n <= table.autoIncrementCounters["id"])
    => ~Rejects(table, "id", NextAuto(table, "id"))

\* parse has returned a query and tokens other than a terminating ';' are left
Unconsumed == pc = "executeQuery" /\ hasMore(sql, pos)

\* C38: when parse returns with tokens left, execute fails with an error and changes no
\* table.
C38_ConsumesAll ==
    [][ Unconsumed => (tables' = tables /\ ~result'.success) ]_vars

\* a table u whose rows are RowsOfU(t), and the registry that holds t and u
TableU(t) ==
    [name |-> "u", columns |-> <<>>, rows |-> RowsOfU(t), indexes |-> <<>>,
     autoIncrementCounters |-> <<>>, deletedIndices |-> {}]
RegistryTU(t) == ("t" :> t) @@ ("u" :> TableU(t))
\* SELECT * FROM t <type> JOIN u ON t.id = u.uid WHERE <column> = <value>
SelectJoinWhere(type, column, value) ==
    [EmptyQuery EXCEPT !.type = "SELECT", !.table = "t", !.all = TRUE,
                       !.joins = <<JoinOn(type)>>,
                       !.where = <<[column |-> column, operator |-> "=", value |-> value,
                                    connector |-> ""]>>]
\* the joined rows of t and u that satisfy the predicate of the query
JoinedSatisfying(t, q) ==
    applyWhere(performJoin(getRows(t), RowsOfU(t), q.joins[1], "t", "u"), q.where)
\* the columns a predicate can name: of the FROM table and of the joined table, bare
\* and qualified
FromColumns == {"id", "v"}
PredicateColumns == {"id", "v", "t.id", "t.v", "uid", "w", "u.uid", "u.w"}

\* C39: in every reachable table state, SELECT * FROM t JOIN u ON t.id = u.uid WHERE
\* c = x yields exactly the joined rows that satisfy c = x, for c a column of t or of u,
\* bare or qualified, and for INNER and LEFT joins.
C39_WhereOnJoinedRows ==
    \A type \in {"INNER", "LEFT"}, c \in PredicateColumns, x \in Nums :
        LET q == SelectJoinWhere(type, c, x)
        IN SeqToSet(selectJoined(RegistryTU(table), q).rows) = SeqToSet(JoinedSatisfying(table, q))

\* C39 for a predicate on a bare column of the FROM table: the rows are the joined rows
\* that satisfy it, in the same order
C39_WhereOnFromColumn ==
    \A type \in {"INNER", "LEFT"}, c \in FromColumns, x \in Nums :
        LET q == SelectJoinWhere(type, c, x)
        IN /\ selectJoined(RegistryTU(table), q).ok
           /\ selectJoined(RegistryTU(table), q).rows = JoinedSatisfying(table, q)

\* parseSelect, the join pushed for "<type> JOIN u ON <leftPart> = <rightPart>"
JoinWritten(type, leftPart, rightPart) ==
    [type |-> type, table |-> "u",
     leftColumn |-> ColumnPart(leftPart), rightColumn |-> ColumnPart(rightPart)]
\* the rows of SELECT * FROM t <type> JOIN u ON <leftPart> = <rightPart>
RowsJoined(t, type, leftPart, rightPart) ==
    performJoin(getRows(t), RowsOfU(t), JoinWritten(type, leftPart, rightPart), "t", "u")

\* C40: in every reachable table state, FROM t JOIN u ON t.id = u.uid and
\* FROM t JOIN u ON u.uid = t.id return the same rows, for INNER, LEFT and RIGHT joins.
C40_OnIsSymmetric ==
    \A type \in {"INNER", "LEFT", "RIGHT"} :
        SeqToSet(RowsJoined(table, type, "t.id", "u.uid"))
            = SeqToSet(RowsJoined(table, type, "u.uid", "t.id"))

\* C40 for a condition written in the order of the tables: the first operand is looked
\* up on the rows of t and the second on the rows of u, qualified or bare
C40_OnInTableOrder ==
    \A type \in {"INNER", "LEFT"} :
        /\ JoinWritten(type, "t.id", "u.uid") = JoinOn(type)
        /\ JoinWritten(type, "id", "uid") = JoinOn(type)
        /\ Len(RowsJoined(table, type, "t.id", "u.uid"))
              = RowsUpTo(getRows(table), RowsOfU(table), type, Len(getRows(table)))
====
